---- MODULE Spec2Model ----
(***************************************************************************)
(* Model of the REANA workflow backend: the workflow engine of benchreana  *)
(* (engine.py), which keeps one state record per run in a local folder and *)
(* reconciles it with the status reported by a REANA cluster, and the      *)
(* state classifier of flowservreana (client.py, modify_state).            *)
(***************************************************************************)
EXTENDS Integers, Sequences, FiniteSets, TLC

VARIABLES
    store,      \* run folders: run id -> NoRun or the object in state.json
    files,      \* run id -> names of the files present under files/
    remote,     \* REANA cluster: workflow id -> "none", "created", "started", "stopped"
    clock,      \* the value datetime.now() returns
    last,       \* the last engine call: operation, arguments, outcome, remote calls
    uuids,      \* the identifiers util.get_unique_identifier() can return
    cluster,    \* what the cluster reports for the workflow of the polled run
    procs,      \* callers of the engine that run at the same time: where each is
    ccall,      \* a call of a method of a REANAClient and its outcome
    cin,        \* input of the last direct call of a state classifier
    cout,       \* its result
    api,        \* the REANATestAPI object and the workflow state polled through it
    mt          \* a call of modify_template: its arguments and its outcome

vars == <<store, files, remote, clock, last, uuids, cluster, procs, ccall, cin, cout, api, mt>>

-----------------------------------------------------------------------------
(* Bounds of the model *)

MaxClock == 2
MaxWorkflows == 2
MaxUploads == 1
MaxOutputs == 2
\* status calls of one workflow at the test API
MaxPolls == 4
\* nesting of folders below a folder that is uploaded
MaxDepth == 2

RunIds == {"r1", "r2"}
WorkflowIds == 1..MaxWorkflows
Times == 0..MaxClock

-----------------------------------------------------------------------------
(* Python values that occur in a response of the cluster: a string, a list *)
(* of strings, or None (the value of dict.get for a missing key).          *)

PyStr(x) == [kind |-> "str", s |-> x, l |-> <<>>]
PyList(q) == [kind |-> "list", s |-> "", l |-> q]
PyNone == [kind |-> "None", s |-> "", l |-> <<>>]

\* len(v) of a string or a list
PyLen(v) == IF v.kind = "str" THEN Len(v.s) ELSE Len(v.l)

\* v in lst, for a list of strings lst
PyIn(v, lst) == v.kind = "str" /\ \E i \in 1..Len(lst) : lst[i] = v.s

REANA_STATE_PENDING == <<"created", "queued">>
REANA_STATE_RUNNING == <<"running">>
\* an error vocabulary that shares a token with the success vocabulary
REANA_STATE_ERROR_with_finished == <<"failed", "stopped", "deleted", "finished">>

REANA_STATE_ERROR == <<"failed", "stopped", "deleted">>
REANA_STATE_SUCCESS == <<"finished">>

\* flowservreana
FS_REANA_STATE_PENDING == <<"created", "queued">>
FS_REANA_STATE_RUNNING == <<"running">>
FS_REANA_STATE_ERROR == <<"failed", "stopped", "deleted">>
FS_REANA_STATE_SUCCESS == <<"finished">>
REANA_ACTIVE_STATE == FS_REANA_STATE_PENDING \o FS_REANA_STATE_RUNNING

Range(q) == {q[i] : i \in 1..Len(q)}

\* The values of response.get('status') the cluster is modelled to give:
\* every token of the four vocabularies, a token outside them, and None.
StatusValues ==
    {PyStr(t) : t \in Range(REANA_STATE_PENDING) \cup Range(REANA_STATE_RUNNING)
                      \cup Range(REANA_STATE_ERROR) \cup Range(REANA_STATE_SUCCESS)
                      \cup {"paused"}}
    \cup {PyNone}

\* The 'logs' element of a response: a string, or absent (PyNone).
LogValues == {PyNone, PyStr("step 2 exited 1")}

Responses == [status : StatusValues, logs : LogValues]

-----------------------------------------------------------------------------
(* Workflow states (benchtmpl.workflow.state / flowserv.model.workflow.state) *)

NoTime == -1
NoResources == [n \in {} |-> <<>>]

STATE_PENDING == "PENDING"
STATE_RUNNING == "RUNNING"
STATE_ERROR == "ERROR"
STATE_SUCCESS == "SUCCESS"

StatePending(created_at) ==
    [type |-> STATE_PENDING, created_at |-> created_at, started_at |-> NoTime,
     stopped_at |-> NoTime, finished_at |-> NoTime,
     messages |-> PyNone, resources |-> NoResources]

StateRunning(created_at, started_at) ==
    [type |-> STATE_RUNNING, created_at |-> created_at, started_at |-> started_at,
     stopped_at |-> NoTime, finished_at |-> NoTime,
     messages |-> PyNone, resources |-> NoResources]

\* an error state built with started_at and stopped_at exchanged
StateErrorExchanged(created_at, started_at, stopped_at, messages) ==
    [type |-> STATE_ERROR, created_at |-> created_at, started_at |-> stopped_at,
     stopped_at |-> started_at, finished_at |-> NoTime,
     messages |-> messages, resources |-> NoResources]

StateError(created_at, started_at, stopped_at, messages) ==
    [type |-> STATE_ERROR, created_at |-> created_at, started_at |-> started_at,
     stopped_at |-> stopped_at, finished_at |-> NoTime,
     messages |-> messages, resources |-> NoResources]

StateSuccess(created_at, started_at, finished_at, resources) ==
    [type |-> STATE_SUCCESS, created_at |-> created_at, started_at |-> started_at,
     stopped_at |-> NoTime, finished_at |-> finished_at,
     messages |-> PyNone, resources |-> resources]

is_pending(state) == state.type = STATE_PENDING
is_running(state) == state.type = STATE_RUNNING
is_error(state) == state.type = STATE_ERROR
is_success(state) == state.type = STATE_SUCCESS
\* is_active that also counts an error state as active
is_active_with_error(state) ==
    is_pending(state) \/ is_running(state) \/ is_error(state)

is_active(state) == is_pending(state) \/ is_running(state)

\* state.error that takes the current time as started_at for every state
state_error_restart(state, messages, now) ==
    StateError(state.created_at, now, now, messages)

\* state.error(messages): created_at is kept; a running state keeps its
\* started_at, a pending state gets the current time as started_at.
state_error(state, messages, now) ==
    StateError(state.created_at,
               IF is_running(state) THEN state.started_at ELSE now,
               now, messages)

\* state.start() of a pending state
state_start(state, now) == StateRunning(state.created_at, now)

\* state.success() of an active state, with an empty resource list
state_success(state, now) ==
    StateSuccess(state.created_at,
                 IF is_running(state) THEN state.started_at ELSE now,
                 now, NoResources)

-----------------------------------------------------------------------------
(* flowservreana/client.py: modify_state *)

\* response.get('logs', 'unknown reason')
get_logs(response) ==
    IF response.logs = PyNone THEN "unknown reason" ELSE response.logs.s

\* modify_state that starts every state that is not running
modify_state_not_running(response, current_state, now) ==
    LET status == response.status IN
    IF PyIn(status, FS_REANA_STATE_RUNNING) /\ ~is_running(current_state)
    THEN state_start(current_state, now)
    ELSE IF PyIn(status, FS_REANA_STATE_ERROR) /\ is_active(current_state)
    THEN state_error(current_state, PyList(<<get_logs(response)>>), now)
    ELSE IF PyIn(status, FS_REANA_STATE_SUCCESS) /\ is_active(current_state)
    THEN state_success(current_state, now)
    ELSE current_state

\* modify_state whose error branch is taken for a pending state only
modify_state_error_pending(response, current_state, now) ==
    LET status == response.status IN
    IF PyIn(status, FS_REANA_STATE_RUNNING) /\ is_pending(current_state)
    THEN state_start(current_state, now)
    ELSE IF PyIn(status, FS_REANA_STATE_ERROR) /\ is_pending(current_state)
    THEN state_error(current_state, PyList(<<get_logs(response)>>), now)
    ELSE IF PyIn(status, FS_REANA_STATE_SUCCESS) /\ is_active(current_state)
    THEN state_success(current_state, now)
    ELSE current_state

modify_state(response, current_state, now) ==
    LET status == response.status IN
    IF PyIn(status, FS_REANA_STATE_RUNNING) /\ is_pending(current_state)
    THEN state_start(current_state, now)
    ELSE IF PyIn(status, FS_REANA_STATE_ERROR) /\ is_active(current_state)
    THEN state_error(current_state, PyList(<<get_logs(response)>>), now)
    ELSE IF PyIn(status, FS_REANA_STATE_SUCCESS) /\ is_active(current_state)
    THEN state_success(current_state, now)
    ELSE current_state

-----------------------------------------------------------------------------
(* benchreana/engine.py *)

OUTPUT_DIR == "files"

NoRun == [exists |-> FALSE]

OutputNames == <<"a.txt", "b.txt", "c.txt", "d.txt">>
InputNames == <<"in1", "in2", "in3">>

\* The output file lists of the workflow specifications that are run.
OutputLists == {SubSeq(OutputNames, 1, n) : n \in 0..MaxOutputs}

\* a state object that is written without the list of output files
RunObjectWithoutOutputs(workflow_id, output_files, state) ==
    [exists |-> TRUE, workflowId |-> workflow_id, outputs |-> <<>>,
     state |-> state]

\* The object written to state.json
RunObject(workflow_id, output_files, state) ==
    [exists |-> TRUE, workflowId |-> workflow_id, outputs |-> output_files,
     state |-> state]

\* the target joined with the run folder instead of its files folder
TargetPathInRunDir(run_id, source) == <<run_id, source>>

\* os.path.join(run_dir, OUTPUT_DIR, source)
TargetPath(run_id, source) == <<run_id, OUTPUT_DIR, source>>

NoneState ==
    [type |-> "None", created_at |-> NoTime, started_at |-> NoTime,
     stopped_at |-> NoTime, finished_at |-> NoTime,
     messages |-> PyNone, resources |-> NoResources]

NoResponse == [status |-> PyNone, logs |-> PyNone, received |-> FALSE]
Received(response) ==
    [status |-> response.status, logs |-> response.logs, received |-> TRUE]

\* a call that is always made for the first workflow of the cluster
CallFirstWorkflow(name, workflow_id, arg) == [call |-> name, wf |-> 1, arg |-> arg]

Call(name, workflow_id, arg) == [call |-> name, wf |-> workflow_id, arg |-> arg]

\* A local effect on the run folder, in the same shape as a client call.
Local(name, run_id) == [call |-> name, wf |-> 0, arg |-> run_id]

RemoteCallNames ==
    {"create_workflow", "upload_file", "start_workflow", "stop_workflow",
     "get_workflow_status", "download_file"}

IsRemoteCall(c) == c.call \in RemoteCallNames

\* What an engine call did: the exception it raised ("" if it returned), the
\* value it returned, its effects in order (the calls of the REANA client and
\* the local makedirs, rmtree and write_object calls), and the response of
\* the status call (if it got one).
Outcome(op, run_id, exc, ret, effects, resp) ==
    [op |-> op, run |-> run_id, exc |-> exc, ret |-> ret, effects |-> effects,
     resp |-> resp]

\* The calls of the REANA client an engine call made, in order.
RemoteCalls(out) == SelectSeq(out.effects, IsRemoteCall)

\* Whether the engine call wrote state.json.
Wrote(out) == \E i \in 1..Len(out.effects) : out.effects[i].call = "write_object"

\* the chain without the test 'not state.is_running()' of its first branch
get_state_branch_rerun(reana_status, state) ==
    IF ~is_active(state) THEN "NoChange"
    ELSE IF PyIn(reana_status, REANA_STATE_RUNNING) THEN "Running"
    ELSE IF PyIn(reana_status, REANA_STATE_ERROR) THEN "Error"
    ELSE IF PyIn(reana_status, REANA_STATE_SUCCESS) THEN "Success"
    ELSE "NoChange"

\* The branch of the if/elif chain of get_state (lines 243-272) that is taken
\* for a status value and the state read from state.json; "NoChange" when
\* get_state returns before the chain or no branch is taken.
get_state_branch(reana_status, state) ==
    IF ~is_active(state) THEN "NoChange"
    ELSE IF PyIn(reana_status, REANA_STATE_RUNNING) /\ ~is_running(state)
    THEN "Running"
    ELSE IF PyIn(reana_status, REANA_STATE_ERROR) THEN "Error"
    ELSE IF PyIn(reana_status, REANA_STATE_SUCCESS) THEN "Success"
    ELSE "NoChange"

\* started_at taken from the clock at every poll
get_started_at_now(state, ts) == ts

\* started_at as computed in lines 238-241
get_started_at(state, ts) == IF is_running(state) THEN state.started_at ELSE ts

\* the download loop without its last source
get_resources_short(run_id, output_files) ==
    [source \in Range(SubSeq(output_files, 1, Len(output_files) - 1)) |->
        TargetPath(run_id, source)]

\* resources built by the download loop for the sources in output_files
get_resources(run_id, output_files) ==
    [source \in Range(output_files) |-> TargetPath(run_id, source)]

DownloadCalls(workflow_id, output_files, n) ==
    [i \in 1..n |-> Call("download_file", workflow_id, output_files[i])]

-----------------------------------------------------------------------------
(* REANAWorkflowEngine.get_state.  The result of a call is the object in   *)
(* state.json after it, the files under files/ after it, and its outcome.  *)
(* response is what get_current_status returns when status_ok, and the     *)
(* call raises REANABackendError otherwise; fail_at = k > 0 makes the k-th *)
(* download_file raise it (after the file was opened for writing when      *)
(* partial), fail_at = 0 lets every download succeed.                      *)

Result(obj, fls, out) == [obj |-> obj, files |-> fls, out |-> out]

\* a status call that is made a second time
StatusCallRetried(workflow_id) ==
    <<Call("get_workflow_status", workflow_id, ""),
      Call("get_workflow_status", workflow_id, "")>>

StatusCall(workflow_id) == <<Call("get_workflow_status", workflow_id, "")>>

\* a changed state that is written while the state read before is returned
changed_returns_read(obj, run_id, new_state, calls, new_files, response) ==
    Result([obj EXCEPT !.state = new_state], new_files,
           Outcome("get_state", run_id, "", obj.state,
                   calls \o <<Local("write_object", run_id)>>, Received(response)))

\* The state was changed: it is written to state.json and returned.
changed(obj, run_id, new_state, calls, new_files, response) ==
    Result([obj EXCEPT !.state = new_state], new_files,
           Outcome("get_state", run_id, "", new_state,
                   calls \o <<Local("write_object", run_id)>>, Received(response)))

\* the success branch writing the state before a failed download raises
get_state_success_early_write(obj, fls, run_id, ts, response, fail_at, partial) ==
    LET state == obj.state
        workflow_id == obj.workflowId
        output_files == obj.outputs
        new_state == StateSuccess(state.created_at, get_started_at(state, ts), ts,
                                  get_resources(run_id, output_files))
    IN
    IF fail_at = 0
    THEN changed(obj, run_id, new_state,
                 StatusCall(workflow_id)
                     \o DownloadCalls(workflow_id, output_files, Len(output_files)),
                 fls \cup Range(output_files), response)
    ELSE Result([obj EXCEPT !.state = new_state],
                fls \cup Range(SubSeq(output_files, 1, fail_at - 1))
                    \cup (IF partial THEN {output_files[fail_at]} ELSE {}),
                Outcome("get_state", run_id, "REANABackendError", NoneState,
                        StatusCall(workflow_id)
                            \o <<Local("write_object", run_id)>>
                            \o DownloadCalls(workflow_id, output_files, fail_at),
                        Received(response)))

\* the success branch downloading only the files not yet in the files folder
get_state_success_skip_present(obj, fls, run_id, ts, response, fail_at, partial) ==
    LET state == obj.state
        workflow_id == obj.workflowId
        IsMissing(source) == source \notin fls
        output_files == SelectSeq(obj.outputs, IsMissing)
    IN
    IF fail_at = 0 \/ fail_at > Len(output_files)
    THEN changed(obj, run_id,
                 StateSuccess(state.created_at, get_started_at(state, ts), ts,
                              get_resources(run_id, obj.outputs)),
                 StatusCall(workflow_id)
                     \o DownloadCalls(workflow_id, output_files, Len(output_files)),
                 fls \cup Range(output_files), response)
    ELSE Result(obj,
                fls \cup Range(SubSeq(output_files, 1, fail_at - 1))
                    \cup (IF partial THEN {output_files[fail_at]} ELSE {}),
                Outcome("get_state", run_id, "REANABackendError", NoneState,
                        StatusCall(workflow_id)
                            \o DownloadCalls(workflow_id, output_files, fail_at),
                        Received(response)))

\* the success branch with resources for the files it has added to the
\* files folder only
get_state_success_new_resources(obj, fls, run_id, ts, response, fail_at, partial) ==
    LET state == obj.state
        workflow_id == obj.workflowId
        output_files == obj.outputs
        IsNew(source) == source \notin fls
    IN
    IF fail_at = 0
    THEN changed(obj, run_id,
                 StateSuccess(state.created_at, get_started_at(state, ts), ts,
                              get_resources(run_id, SelectSeq(output_files, IsNew))),
                 StatusCall(workflow_id)
                     \o DownloadCalls(workflow_id, output_files, Len(output_files)),
                 fls \cup Range(output_files), response)
    ELSE Result(obj,
                fls \cup Range(SubSeq(output_files, 1, fail_at - 1))
                    \cup (IF partial THEN {output_files[fail_at]} ELSE {}),
                Outcome("get_state", run_id, "REANABackendError", NoneState,
                        StatusCall(workflow_id)
                            \o DownloadCalls(workflow_id, output_files, fail_at),
                        Received(response)))

\* The branch for a status in REANA_STATE_SUCCESS (lines 257-272).
get_state_success(obj, fls, run_id, ts, response, fail_at, partial) ==
    LET state == obj.state
        workflow_id == obj.workflowId
        output_files == obj.outputs
    IN
    IF fail_at = 0
    THEN changed(obj, run_id,
                 StateSuccess(state.created_at, get_started_at(state, ts), ts,
                              get_resources(run_id, output_files)),
                 StatusCall(workflow_id)
                     \o DownloadCalls(workflow_id, output_files, Len(output_files)),
                 fls \cup Range(output_files), response)
    ELSE \* download_file raises REANABackendError
         Result(obj,
                fls \cup Range(SubSeq(output_files, 1, fail_at - 1))
                    \cup (IF partial THEN {output_files[fail_at]} ELSE {}),
                Outcome("get_state", run_id, "REANABackendError", NoneState,
                        StatusCall(workflow_id)
                            \o DownloadCalls(workflow_id, output_files, fail_at),
                        Received(response)))

\* The branch for a status in REANA_STATE_ERROR (lines 249-256).
get_state_error(obj, fls, run_id, ts, response) ==
    LET state == obj.state IN
    IF response.logs = PyNone
    THEN \* response['logs'] raises KeyError
         Result(obj, fls,
                Outcome("get_state", run_id, "KeyError", NoneState,
                        StatusCall(obj.workflowId), Received(response)))
    ELSE changed(obj, run_id,
                 StateError(state.created_at, get_started_at(state, ts), ts,
                            response.logs),
                 StatusCall(obj.workflowId), fls, response)

get_state(obj, fls, run_id, ts, response, status_ok, fail_at, partial) ==
    LET state == obj.state
        branch == get_state_branch(response.status, state)
    IN
    IF ~is_active(state)
    THEN Result(obj, fls, Outcome("get_state", run_id, "", state, <<>>, NoResponse))
    ELSE IF ~status_ok
    THEN Result(obj, fls,
                Outcome("get_state", run_id, "REANABackendError", NoneState,
                        StatusCall(obj.workflowId), NoResponse))
    ELSE IF branch = "Running"
    THEN changed(obj, run_id,
                 StateRunning(state.created_at, get_started_at(state, ts)),
                 StatusCall(obj.workflowId), fls, response)
    ELSE IF branch = "Error"
    THEN get_state_error(obj, fls, run_id, ts, response)
    ELSE IF branch = "Success"
    THEN get_state_success(obj, fls, run_id, ts, response, fail_at, partial)
    ELSE Result(obj, fls,
                Outcome("get_state", run_id, "", state, StatusCall(obj.workflowId),
                        Received(response)))

\* cancel_run that writes a new object with the error state only
cancel_run_new_object(obj, fls, run_id, ts, stop_ok) ==
    LET state == obj.state
        stop_call == IF is_running(state)
                     THEN <<Call("stop_workflow", obj.workflowId, "")>> ELSE <<>>
    IN
    IF ~is_active(state)
    THEN Result(obj, fls,
                Outcome("cancel_run", run_id, "", state, <<>>, NoResponse))
    ELSE IF is_running(state) /\ ~stop_ok
    THEN Result(obj, fls,
                Outcome("cancel_run", run_id, "REANABackendError", NoneState,
                        stop_call, NoResponse))
    ELSE Result(RunObject(0, <<>>,
                          state_error(state, PyList(<<"canceled by user">>), ts)),
                fls,
                Outcome("cancel_run", run_id, "", NoneState,
                        stop_call \o <<Local("write_object", run_id)>>, NoResponse))

\* cancel_run that ignores a stop_workflow that raises
cancel_run_tolerant(obj, fls, run_id, ts, stop_ok) ==
    LET state == obj.state
        stop_call == IF is_running(state)
                     THEN <<Call("stop_workflow", obj.workflowId, "")>> ELSE <<>>
    IN
    IF ~is_active(state)
    THEN Result(obj, fls,
                Outcome("cancel_run", run_id, "", state, <<>>, NoResponse))
    ELSE Result([obj EXCEPT !.state =
                     state_error(state, PyList(<<"canceled by user">>), ts)],
                fls,
                Outcome("cancel_run", run_id, "", NoneState,
                        stop_call \o <<Local("write_object", run_id)>>, NoResponse))

\* cancel_run that asks the cluster to stop every active workflow
cancel_run_stop_active(obj, fls, run_id, ts, stop_ok) ==
    LET state == obj.state
        stop_call == <<Call("stop_workflow", obj.workflowId, "")>>
    IN
    IF ~is_active(state)
    THEN Result(obj, fls,
                Outcome("cancel_run", run_id, "", state, <<>>, NoResponse))
    ELSE IF ~stop_ok
    THEN Result(obj, fls,
                Outcome("cancel_run", run_id, "REANABackendError", NoneState,
                        stop_call, NoResponse))
    ELSE Result([obj EXCEPT !.state =
                     state_error(state, PyList(<<"canceled by user">>), ts)],
                fls,
                Outcome("cancel_run", run_id, "", NoneState,
                        stop_call \o <<Local("write_object", run_id)>>, NoResponse))

\* cancel_run that returns early for success states only
cancel_run_success_only(obj, fls, run_id, ts, stop_ok) ==
    LET state == obj.state
        stop_call == IF is_running(state)
                     THEN <<Call("stop_workflow", obj.workflowId, "")>> ELSE <<>>
    IN
    IF is_success(state)
    THEN Result(obj, fls,
                Outcome("cancel_run", run_id, "", state, <<>>, NoResponse))
    ELSE IF is_running(state) /\ ~stop_ok
    THEN Result(obj, fls,
                Outcome("cancel_run", run_id, "REANABackendError", NoneState,
                        stop_call, NoResponse))
    ELSE Result([obj EXCEPT !.state =
                     state_error(state, PyList(<<"canceled by user">>), ts)],
                fls,
                Outcome("cancel_run", run_id, "", NoneState,
                        stop_call \o <<Local("write_object", run_id)>>, NoResponse))

\* cancel_run without the return for inactive runs
cancel_run_no_return(obj, fls, run_id, ts, stop_ok) ==
    LET state == obj.state
        stop_call == IF is_running(state)
                     THEN <<Call("stop_workflow", obj.workflowId, "")>> ELSE <<>>
    IN
    IF is_running(state) /\ ~stop_ok
    THEN Result(obj, fls,
                Outcome("cancel_run", run_id, "REANABackendError", NoneState,
                        stop_call, NoResponse))
    ELSE Result([obj EXCEPT !.state =
                     state_error(state, PyList(<<"canceled by user">>), ts)],
                fls,
                Outcome("cancel_run", run_id, "", NoneState,
                        stop_call \o <<Local("write_object", run_id)>>, NoResponse))

(* REANAWorkflowEngine.cancel_run; stop_ok tells whether stop_workflow     *)
(* returns or raises REANABackendError.                                    *)
cancel_run(obj, fls, run_id, ts, stop_ok) ==
    LET state == obj.state
        workflow_id == obj.workflowId
        stop_call == IF is_running(state)
                     THEN <<Call("stop_workflow", workflow_id, "")>> ELSE <<>>
        out(exc, ret, effects) ==
            Outcome("cancel_run", run_id, exc, ret, effects, NoResponse)
    IN
    IF ~is_active(state)
    THEN Result(obj, fls, out("", state, <<>>))
    ELSE IF is_running(state) /\ ~stop_ok
    THEN Result(obj, fls, out("REANABackendError", NoneState, stop_call))
    ELSE Result([obj EXCEPT !.state =
                     state_error(state, PyList(<<"canceled by user">>), ts)],
                fls, out("", NoneState, stop_call \o <<Local("write_object", run_id)>>))

-----------------------------------------------------------------------------
(* REANAWorkflowEngine.execute.  The steps of the try block for a workflow *)
(* with n_up input files; fail_at = k > 0 makes the k-th step raise,       *)
(* fail_at = 0 lets every step succeed.                                    *)

\* the steps with the workflow started before the files are uploaded
ExecuteStepsStartFirst(n_up) ==
    <<"replace_args", "create_workflow", "start_workflow">>
        \o [i \in 1..n_up |-> "upload_file"] \o <<"write_object">>

ExecuteSteps(n_up) ==
    <<"replace_args", "create_workflow">> \o [i \in 1..n_up |-> "upload_file"]
        \o <<"start_workflow", "write_object">>

\* The exception a failing step raises.
StepError(step) ==
    IF step = "replace_args" THEN "InvalidTemplateError"
    ELSE IF step = "write_object" THEN "IOError"
    ELSE "REANABackendError"

\* The effect of step j: a call of the client, or writing state.json.
StepEffect(steps, j, identifier, workflow_id) ==
    IF steps[j] = "create_workflow" THEN Call("create_workflow", 0, "")
    ELSE IF steps[j] = "upload_file" THEN Call("upload_file", workflow_id, InputNames[j - 2])
    ELSE IF steps[j] = "start_workflow" THEN Call("start_workflow", workflow_id, "")
    ELSE Local(steps[j], identifier)

\* Steps 1..m were entered, the last of them raised when failed.
IsEffect(c) == c.call # "replace_args"

\* execute without the except clause: the run folder of a failed call stays
execute_no_rollback(identifier, workflow_id, output_files, n_up, fail_at, ts) ==
    LET steps == ExecuteSteps(n_up)
        failed == fail_at > 0
        m == IF failed THEN fail_at ELSE Len(steps)
        entered == [j \in 1..m |-> StepEffect(steps, j, identifier, workflow_id)]
        effects == <<Local("makedirs", identifier)>> \o SelectSeq(entered, IsEffect)
        state == StatePending(ts)
    IN
    Result(RunObject(workflow_id, output_files, state),
           {},
           Outcome("execute", identifier,
                   IF failed THEN StepError(steps[m]) ELSE "",
                   NoneState, effects, NoResponse))

\* execute that creates the run folder after the workflow was created
execute_create_first(identifier, workflow_id, output_files, n_up, fail_at, ts) ==
    LET steps == ExecuteSteps(n_up)
        failed == fail_at > 0
        m == IF failed THEN fail_at ELSE Len(steps)
        entered == [j \in 1..m |-> StepEffect(steps, j, identifier, workflow_id)]
        done == IF failed /\ steps[m] = "write_object"
                THEN SubSeq(entered, 1, m - 1) ELSE entered
        effects == IF failed /\ m <= 2
                   THEN SelectSeq(done, IsEffect)
                   ELSE SelectSeq(SubSeq(done, 1, 2), IsEffect)
                            \o <<Local("makedirs", identifier)>>
                            \o SelectSeq(SubSeq(done, 3, Len(done)), IsEffect)
                            \o (IF failed THEN <<Local("rmtree", identifier)>> ELSE <<>>)
        state == StatePending(ts)
    IN
    Result(IF failed THEN NoRun ELSE RunObject(workflow_id, output_files, state),
           {},
           Outcome("execute", identifier,
                   IF failed THEN StepError(steps[m]) ELSE "",
                   NoneState, effects, NoResponse))

execute(identifier, workflow_id, output_files, n_up, fail_at, ts) ==
    LET steps == ExecuteSteps(n_up)
        failed == fail_at > 0
        m == IF failed THEN fail_at ELSE Len(steps)
        entered == [j \in 1..m |-> StepEffect(steps, j, identifier, workflow_id)]
        \* a write_object that raised wrote no state.json that is kept
        done == IF failed /\ steps[m] = "write_object"
                THEN SubSeq(entered, 1, m - 1) ELSE entered
        effects == <<Local("makedirs", identifier)>> \o SelectSeq(done, IsEffect)
                       \o (IF failed THEN <<Local("rmtree", identifier)>> ELSE <<>>)
        state == StatePending(ts)
    IN
    Result(IF failed THEN NoRun ELSE RunObject(workflow_id, output_files, state),
           {},
           Outcome("execute", identifier,
                   IF failed THEN StepError(steps[m]) ELSE "",
                   NoneState, effects, NoResponse))

\* a rollback that also removes the workflow at the cluster
RemoteAfterRemoteRollback(n_up, fail_at) ==
    IF fail_at = 0 THEN "started" ELSE "none"

\* The state of the workflow at the cluster after the steps that succeeded.
RemoteAfter(n_up, fail_at) ==
    IF fail_at = 0 \/ fail_at > n_up + 3 THEN "started"
    ELSE IF fail_at > 2 THEN "created"
    ELSE "none"

-----------------------------------------------------------------------------
(* Actions *)

\* a call for an unknown run that returns None instead of raising
UnknownRunIgnored(op, run_id) ==
    /\ ~store[run_id].exists
    /\ last' = Outcome(op, run_id, "", NoneState, <<>>, NoResponse)
    /\ UNCHANGED <<store, files, remote, clock, uuids, cluster, procs, ccall, cin, cout, api, mt>>

UnknownRun(op, run_id) ==
    /\ ~store[run_id].exists
    /\ last' = Outcome(op, run_id, "UnknownRunError", NoneState, <<>>, NoResponse)
    /\ UNCHANGED <<store, files, remote, clock, uuids, cluster, procs, ccall, cin, cout, api, mt>>

GetState(run_id) ==
    \/ UnknownRun("get_state", run_id)
    \/ /\ store[run_id].exists
       /\ \E response \in Responses, status_ok \in BOOLEAN,
             fail_at \in 0..Len(store[run_id].outputs), partial \in BOOLEAN :
            \* a download can fail only where downloads are made
            /\ (fail_at > 0 \/ partial) =>
                  /\ status_ok /\ fail_at > 0
                  /\ get_state_branch(response.status, store[run_id].state) = "Success"
            /\ LET res == get_state(store[run_id], files[run_id], run_id, clock,
                                 response, status_ok, fail_at, partial)
               IN /\ store' = [store EXCEPT ![run_id] = res.obj]
                  /\ files' = [files EXCEPT ![run_id] = res.files]
                  /\ last' = res.out
       /\ UNCHANGED <<remote, clock, uuids, cluster, procs, ccall, cin, cout, api, mt>>

CancelRun(run_id) ==
    \/ UnknownRun("cancel_run", run_id)
    \/ /\ store[run_id].exists
       /\ \E stop_ok \in BOOLEAN :
            LET res == cancel_run(store[run_id], files[run_id], run_id, clock, stop_ok)
            IN /\ store' = [store EXCEPT ![run_id] = res.obj]
               /\ files' = [files EXCEPT ![run_id] = res.files]
               /\ last' = res.out
               /\ remote' = IF /\ \E i \in 1..Len(res.out.effects) :
                                      res.out.effects[i].call = "stop_workflow"
                               /\ res.out.exc = ""
                            THEN [remote EXCEPT ![store[run_id].workflowId] = "stopped"]
                            ELSE remote
       /\ UNCHANGED <<clock, uuids, cluster, procs, ccall, cin, cout, api, mt>>

\* Time passes; datetime.now() never goes backwards.
Tick ==
    /\ clock < MaxClock
    /\ clock' = clock + 1
    /\ UNCHANGED <<store, files, remote, last, uuids, cluster, procs, ccall, cin, cout, api, mt>>

\* the arguments validated after the run folder was made
ExecuteInvalidAfterMakedirs ==
    /\ \E identifier \in uuids :
         /\ ~store[identifier].exists
         /\ store' = [store EXCEPT ![identifier] = RunObject(0, <<>>, NoneState)]
         /\ last' = Outcome("execute", identifier, "MissingArgumentError", NoneState,
                            <<Local("makedirs", identifier)>>, NoResponse)
    /\ UNCHANGED <<files, remote, clock, uuids, cluster, procs, ccall, cin, cout, api, mt>>

\* template.validate_arguments raises before anything is done.
ExecuteInvalid ==
    /\ last' = Outcome("execute", "", "MissingArgumentError", NoneState, <<>>, NoResponse)
    /\ UNCHANGED <<store, files, remote, clock, uuids, cluster, procs, ccall, cin, cout, api, mt>>

\* os.makedirs inside the try block: the except clause removes the folder
ExecuteExistsRollback(identifier) ==
    /\ store[identifier].exists
    /\ store' = [store EXCEPT ![identifier] = NoRun]
    /\ files' = [files EXCEPT ![identifier] = {}]
    /\ last' = Outcome("execute", identifier, "FileExistsError", NoneState,
                       <<Local("rmtree", identifier)>>, NoResponse)
    /\ UNCHANGED <<remote, clock, uuids, cluster, procs, ccall, cin, cout, api, mt>>

\* os.makedirs(run_dir) raises for a run folder that exists.
ExecuteExists(identifier) ==
    /\ store[identifier].exists
    /\ last' = Outcome("execute", identifier, "FileExistsError", NoneState, <<>>, NoResponse)
    /\ UNCHANGED <<store, files, remote, clock, uuids, cluster, procs, ccall, cin, cout, api, mt>>

ExecuteRun(identifier) ==
    /\ ~store[identifier].exists
    /\ \E workflow_id \in WorkflowIds, output_files \in OutputLists, n_up \in 0..MaxUploads :
         \E fail_at \in 0..Len(ExecuteSteps(n_up)) :
            \* the cluster gives each created workflow a new identifier
            /\ remote[workflow_id] = "none"
            /\ \A w \in WorkflowIds : w < workflow_id => remote[w] # "none"
            /\ LET res == execute(identifier, workflow_id, output_files, n_up,
                                  fail_at, clock)
               IN /\ store' = [store EXCEPT ![identifier] = res.obj]
                  /\ files' = [files EXCEPT ![identifier] = res.files]
                  /\ last' = res.out
            /\ remote' = [remote EXCEPT ![workflow_id] = RemoteAfter(n_up, fail_at)]
    /\ UNCHANGED <<clock, uuids, cluster, procs, ccall, cin, cout, api, mt>>

Execute ==
    \/ ExecuteInvalid
    \/ \E identifier \in uuids : ExecuteExists(identifier)
    \/ \E identifier \in uuids : ExecuteRun(identifier)

\* No caller runs at the same time as another.
NoProcs == <<>>

-----------------------------------------------------------------------------
(* Callers of one engine that run at the same time.  The engine takes no   *)
(* lock: between reading state.json, calling the cluster and writing       *)
(* state.json a call can be overtaken by another call; execute makes the   *)
(* run folder long before it writes state.json into it.                    *)

Procs == {"p1", "p2"}

NoResult == Result(NoRun, {}, Outcome("", "", "", NoneState, <<>>, NoResponse))

\* Where a caller is (pc), the call it makes, the object it has read from
\* state.json, and the result it has computed from it.
Proc(pc, op, run_id, obj, res) ==
    [pc |-> pc, op |-> op, run |-> run_id, obj |-> obj, res |-> res]

IdleProc == Proc("idle", "", "", NoRun, NoResult)

\* The responses of the cluster that make get_state write a state.
ConcResponses ==
    [status : {PyStr(REANA_STATE_RUNNING[1]), PyStr(REANA_STATE_ERROR[1]),
               PyStr(REANA_STATE_SUCCESS[1])},
     logs : LogValues]

\* The run folder with its files folder, before state.json is written.
RunDir == RunObject(0, <<>>, NoneState)

\* Lines 94-105 and 221-231: the test for the run folder, reading
\* state.json, and the return for a state that is not active.
ConcLoad(p, op, run_id) ==
    /\ procs[p].pc = "idle"
    /\ LET ends(exc, ret) ==
             /\ procs' = [procs EXCEPT ![p] = IdleProc]
             /\ last' = Outcome(op, run_id, exc, ret, <<>>, NoResponse)
       IN IF ~store[run_id].exists
          THEN ends("UnknownRunError", NoneState)
          ELSE IF store[run_id] = RunDir
          THEN \* util.read_object finds no state.json
               ends("FileNotFoundError", NoneState)
          ELSE IF ~is_active(store[run_id].state)
          THEN ends("", store[run_id].state)
          ELSE /\ procs' = [procs EXCEPT
                                ![p] = Proc("loaded", op, run_id, store[run_id], NoResult)]
               /\ UNCHANGED last
    /\ UNCHANGED <<store, files, remote, clock, uuids, cluster, ccall, cin, cout, api, mt>>

\* A caller goes on after its calls of the cluster: to the write of the
\* state it has computed, or to the end of the call.
ConcAfterRemote(p, res) ==
    IF Wrote(res.out)
    THEN /\ procs' = [procs EXCEPT ![p].pc = "write", ![p].res = res]
         /\ UNCHANGED last
    ELSE /\ procs' = [procs EXCEPT ![p] = IdleProc]
         /\ last' = res.out

\* Lines 235-272 of get_state: the status call, the timestamp, the new
\* state and the downloads, all from the object read before.
ConcGetStateRemote(p) ==
    /\ procs[p].pc = "loaded" /\ procs[p].op = "get_state"
    /\ LET obj == procs[p].obj
           run_id == procs[p].run
       IN \E response \in ConcResponses, fail_at \in 0..Len(obj.outputs) :
            \* a download can fail only where downloads are made
            /\ fail_at > 0 =>
                  get_state_branch(response.status, obj.state) = "Success"
            /\ LET res == get_state(obj, files[run_id], run_id, clock,
                                    response, TRUE, fail_at, FALSE)
               IN /\ files' = [files EXCEPT ![run_id] = res.files]
                  /\ ConcAfterRemote(p, res)
    /\ UNCHANGED <<store, remote, clock, uuids, cluster, ccall, cin, cout, api, mt>>

\* Lines 106-112 of cancel_run: the stop call for a running state, and the
\* error state, from the object read before.
ConcCancelRemote(p) ==
    /\ procs[p].pc = "loaded" /\ procs[p].op = "cancel_run"
    /\ LET obj == procs[p].obj
           run_id == procs[p].run
       IN \E stop_ok \in BOOLEAN :
            LET res == cancel_run(obj, files[run_id], run_id, clock, stop_ok)
            IN /\ ConcAfterRemote(p, res)
               /\ remote' = IF is_running(obj.state) /\ res.out.exc = ""
                            THEN [remote EXCEPT ![obj.workflowId] = "stopped"]
                            ELSE remote
    /\ UNCHANGED <<store, files, clock, uuids, cluster, ccall, cin, cout, api, mt>>

\* Lines 113-114 and 274-277: the object read before is written with the
\* new state, over whatever state.json holds by now.
ConcWrite(p) ==
    /\ procs[p].pc = "write"
    /\ store' = [store EXCEPT ![procs[p].run] = procs[p].res.obj]
    /\ last' = procs[p].res.out
    /\ procs' = [procs EXCEPT ![p] = IdleProc]
    /\ UNCHANGED <<files, remote, clock, uuids, cluster, ccall, cin, cout, api, mt>>

\* Lines 150-155 of execute: the run folder and its files folder are made.
ConcMakedirs(p, identifier) ==
    /\ procs[p].pc = "idle"
    /\ ~store[identifier].exists
    /\ store' = [store EXCEPT ![identifier] = RunDir]
    /\ procs' = [procs EXCEPT ![p] = Proc("made", "execute", identifier, NoRun, NoResult)]
    /\ UNCHANGED <<files, remote, clock, last, uuids, cluster, ccall, cin, cout, api, mt>>

\* Lines 158-198 of execute: the calls of the cluster, then state.json is
\* written or the run folder is removed.
ConcExecute(p) ==
    /\ procs[p].pc = "made"
    /\ \E workflow_id \in WorkflowIds, output_files \in OutputLists :
         \E fail_at \in 0..Len(ExecuteSteps(0)) :
            /\ remote[workflow_id] = "none"
            /\ \A w \in WorkflowIds : w < workflow_id => remote[w] # "none"
            /\ LET res == execute(procs[p].run, workflow_id, output_files, 0,
                                  fail_at, clock)
               IN /\ store' = [store EXCEPT ![procs[p].run] = res.obj]
                  /\ files' = [files EXCEPT ![procs[p].run] = res.files]
                  /\ last' = res.out
                  /\ procs' = [procs EXCEPT ![p] = IdleProc]
            /\ remote' = [remote EXCEPT ![workflow_id] = RemoteAfter(0, fail_at)]
    /\ UNCHANGED <<clock, uuids, cluster, ccall, cin, cout, api, mt>>

NextConc ==
    \/ \E p \in Procs, op \in {"get_state", "cancel_run"}, run_id \in RunIds :
          ConcLoad(p, op, run_id)
    \/ \E p \in Procs : ConcGetStateRemote(p)
    \/ \E p \in Procs : ConcCancelRemote(p)
    \/ \E p \in Procs : ConcWrite(p)
    \/ \E p \in Procs, identifier \in uuids : ConcMakedirs(p, identifier)
    \/ \E p \in Procs : ConcExecute(p)

-----------------------------------------------------------------------------
(* The methods of the two REANAClient classes, called on their own.  The   *)
(* outcome of a call is the exception that reaches the caller ("" if none) *)
(* and the calls of the reana-client API that were made.  api_ok tells     *)
(* whether the API function returns; it raises an Exception otherwise.     *)

Clients == {"benchreana", "flowservreana"}

ClientMethods ==
    {"create_workflow", "download_file", "get_workflow_status",
     "start_workflow", "stop_workflow", "upload_file"}

\* The names of files in a folder and the name of a folder in a folder.
FileNames == {"a.txt", "b.txt"}
DirName == "d"

\* The path given as source and the path given as target (a path is the
\* sequence of its names, os.path.join appends one).
SourcePath == <<"s">>
TargetRoot == <<"t">>

\* The folder at depth k below the source.
RECURSIVE DirAt(_)
DirAt(k) == IF k = 0 THEN SourcePath ELSE Append(DirAt(k - 1), DirName)

\* What is on disk under the source, and the order in which os.listdir
\* gives the names of a folder.
FileSystem(fls, dirs, listing) == [files |-> fls, dirs |-> dirs, listing |-> listing]

Listings == {<<"a.txt", "b.txt", "d">>, <<"d", "b.txt", "a.txt">>}

\* What upload_file is given: a file, or a folder with up to MaxDepth nested
\* folders and any of the files in each of them.
Sources ==
    {FileSystem({SourcePath}, {}, l) : l \in Listings}
    \cup UNION {
         {FileSystem(fls, {DirAt(j) : j \in 0..k}, l) :
              fls \in SUBSET {Append(DirAt(j), n) : j \in 0..k, n \in FileNames},
              l \in Listings} : k \in 0..MaxDepth}

NoSource == FileSystem({}, {}, <<>>)

ApiCall(name, source, target) == [call |-> name, source |-> source, target |-> target]

ClientOutcome(exc, calls) == [exc |-> exc, api |-> calls]

\* The names in folder root that are files, and those that are folders
FilesIn(fs, root) ==
    SelectSeq(fs.listing, LAMBDA n : Append(root, n) \in fs.files)

DirsIn(fs, root) ==
    SelectSeq(fs.listing, LAMBDA n : Append(root, n) \in fs.dirs)

\* os.walk(top, topdown=False): the folders below top before top itself,
\* each with the names of its folders and of its files
RECURSIVE walk(_, _)
walk(fs, top) ==
    LET dirs == DirsIn(fs, top)
        RECURSIVE below(_)
        below(i) == IF i > Len(dirs) THEN <<>>
                    ELSE walk(fs, Append(top, dirs[i])) \o below(i + 1)
    IN  below(1) \o <<[root |-> top, dirs |-> dirs, files |-> FilesIn(fs, top)]>>

\* for root, dirs, files in os.walk(...): for next_path in files + dirs
RECURSIVE NextPaths(_)
NextPaths(walked) ==
    IF walked = <<>> THEN <<>>
    ELSE Head(walked).files \o Head(walked).dirs \o NextPaths(Tail(walked))

\* benchreana.client.REANAClient.upload_file, the branch of a source that
\* is no folder: it opens the undefined name 'soure' before the API is
\* called.
bench_upload_file(fs, source, target, api_ok) == ClientOutcome("NameError", <<>>)

\* flowservreana.client.REANAClient.upload_file, the branch of a source
\* that is no folder: open(source, 'rb'), then the upload of the API.
flow_upload_file(fs, source, target, api_ok) ==
    IF source \notin fs.files THEN ClientOutcome("FileNotFoundError", <<>>)
    ELSE ClientOutcome(IF api_ok THEN "" ELSE "Exception",
                       <<ApiCall("upload_file", source, target)>>)

\* upload_file of both clients: for a folder, every name that os.walk gives
\* is joined with the source and with the target of this call and uploaded
\* by a call of upload_file; the first exception ends the loop.
RECURSIVE upload_file(_, _, _, _, _)
upload_file(client, fs, source, target, api_ok) ==
    IF source \in fs.dirs
    THEN LET next == NextPaths(walk(fs, source))
             RECURSIVE loop(_, _)
             loop(i, acc) ==
                 IF i > Len(next) \/ acc.exc # "" THEN acc
                 ELSE LET r == upload_file(client, fs, Append(source, next[i]),
                                           Append(target, next[i]), api_ok)
                      IN  loop(i + 1, ClientOutcome(r.exc, acc.api \o r.api))
         IN  loop(1, ClientOutcome("", <<>>))
    ELSE IF client = "benchreana"
         THEN bench_upload_file(fs, source, target, api_ok)
         ELSE flow_upload_file(fs, source, target, api_ok)

client_call(client, method, source, api_ok) ==
    IF method = "upload_file"
    THEN upload_file(client, source, SourcePath, TargetRoot, api_ok)
    ELSE IF client = "benchreana"
         THEN \* try: return reana.<method>(...) except Exception: raise REANABackendError
              ClientOutcome(IF api_ok THEN "" ELSE "REANABackendError",
                            <<ApiCall(method, <<>>, <<>>)>>)
         ELSE \* the API function is called outside any try
              ClientOutcome(IF api_ok THEN "" ELSE "Exception",
                            <<ApiCall(method, <<>>, <<>>)>>)

ClientCall(client, method, workflow_id, source, api_ok, done, out) ==
    [client |-> client, method |-> method, workflow_id |-> workflow_id,
     source |-> source, api_ok |-> api_ok, done |-> done, out |-> out]

NoClientCall == ClientCall("", "", 0, NoSource, TRUE, FALSE, ClientOutcome("", <<>>))

CallClient ==
    /\ ccall.client \in Clients /\ ~ccall.done
    /\ ccall' = [ccall EXCEPT
                    !.done = TRUE,
                    !.out = client_call(ccall.client, ccall.method, ccall.source,
                                        ccall.api_ok)]
    /\ UNCHANGED <<store, files, remote, clock, last, uuids, cluster, procs, cin, cout, api, mt>>

-----------------------------------------------------------------------------
(* A caller that polls a run until it is no longer active, while the      *)
(* workflow proceeds at the cluster.                                       *)

\* The status the cluster reports, the logs it reports with it, and whether
\* the files of the workflow can be downloaded.
ClusterState(status, logs, files_ok) ==
    [status |-> status, logs |-> logs, files_ok |-> files_ok]

\* A created workflow is reported with the first status of the pending list.
ClusterInit == ClusterState(REANA_STATE_PENDING[1], PyNone, FALSE)

\* The workflow proceeds: pending, then running, then failed or finished;
\* a failed workflow is reported with or without logs.
ClusterStep ==
    /\ \E r \in RunIds : store[r].exists
    /\ \/ /\ cluster.status \in Range(REANA_STATE_PENDING)
          /\ cluster' = [cluster EXCEPT !.status = REANA_STATE_RUNNING[1]]
       \/ /\ cluster.status \in Range(REANA_STATE_RUNNING)
          /\ \E logs \in LogValues :
                cluster' = [cluster EXCEPT !.status = REANA_STATE_ERROR[1],
                                           !.logs = logs]
       \/ /\ cluster.status \in Range(REANA_STATE_RUNNING)
          /\ cluster' = [cluster EXCEPT !.status = REANA_STATE_SUCCESS[1]]
    /\ UNCHANGED <<store, files, remote, clock, last, uuids, procs, ccall, cin, cout, api, mt>>

\* The files of the workflow become available for download, and stay so.
ClusterFiles ==
    /\ ~cluster.files_ok
    /\ cluster' = [cluster EXCEPT !.files_ok = TRUE]
    /\ UNCHANGED <<store, files, remote, clock, last, uuids, procs, ccall, cin, cout, api, mt>>

\* One round of 'while engine.get_state(run_id).is_active()': the status
\* call returns what the cluster reports; a download fails only while the
\* files are not available.
Poll(run_id) ==
    /\ store[run_id].exists
    /\ \E fail_at \in 0..Len(store[run_id].outputs), partial \in BOOLEAN :
         LET response == [status |-> PyStr(cluster.status), logs |-> cluster.logs]
             downloads == get_state_branch(response.status, store[run_id].state)
                              = "Success"
         IN /\ IF downloads /\ ~cluster.files_ok /\ Len(store[run_id].outputs) > 0
               THEN fail_at > 0
               ELSE fail_at = 0 /\ ~partial
            /\ LET res == get_state(store[run_id], files[run_id], run_id, clock,
                                    response, TRUE, fail_at, partial)
               IN /\ store' = [store EXCEPT ![run_id] = res.obj]
                  /\ files' = [files EXCEPT ![run_id] = res.files]
                  /\ last' = res.out
    /\ UNCHANGED <<remote, clock, uuids, cluster, procs, ccall, cin, cout, api, mt>>

\* benchreana.tests.REANATestClient.get_current_status: the state of the
\* run at the multi-process backend (held in cluster.status by the token of
\* its stage) is reported with the list of tokens of its stage as 'status',
\* and an error state with its messages joined to one string as 'logs'.
test_get_current_status(cl) ==
    IF cl.status \in Range(REANA_STATE_PENDING)
    THEN [status |-> PyList(REANA_STATE_PENDING), logs |-> PyNone]
    ELSE IF cl.status \in Range(REANA_STATE_RUNNING)
    THEN [status |-> PyList(REANA_STATE_RUNNING), logs |-> PyNone]
    ELSE IF cl.status \in Range(REANA_STATE_ERROR)
    THEN [status |-> PyList(REANA_STATE_ERROR),
          logs |-> IF cl.logs = PyNone THEN PyStr("") ELSE cl.logs]
    ELSE [status |-> PyList(REANA_STATE_SUCCESS), logs |-> PyNone]

\* One round of the polling loop of the unit test, with REANATestClient as
\* the client of the engine.
PollTestClient(run_id) ==
    /\ store[run_id].exists
    /\ \E fail_at \in 0..Len(store[run_id].outputs), partial \in BOOLEAN :
         LET response == test_get_current_status(cluster)
             downloads == get_state_branch(response.status, store[run_id].state)
                              = "Success"
         IN /\ IF downloads /\ ~cluster.files_ok /\ Len(store[run_id].outputs) > 0
               THEN fail_at > 0
               ELSE fail_at = 0 /\ ~partial
            /\ LET res == get_state(store[run_id], files[run_id], run_id, clock,
                                    response, TRUE, fail_at, partial)
               IN /\ store' = [store EXCEPT ![run_id] = res.obj]
                  /\ files' = [files EXCEPT ![run_id] = res.files]
                  /\ last' = res.out
    /\ UNCHANGED <<remote, clock, uuids, cluster, procs, ccall, cin, cout, api, mt>>

NextTestClient ==
    \/ Execute
    \/ ClusterStep
    \/ ClusterFiles
    \/ \E run_id \in RunIds : PollTestClient(run_id)
    \/ Tick

NextPoll ==
    \/ Execute
    \/ ClusterStep
    \/ ClusterFiles
    \/ \E run_id \in RunIds : Poll(run_id)
    \/ Tick

-----------------------------------------------------------------------------
(* flowservreana.tests.REANATestAPI, the API that simulates a cluster, and *)
(* a workflow whose state is polled through it by get_workflow_state.      *)

\* The values of 'action' in the file inputs/to-do.json of the workflow.
Actions == {"ERROR", "SUCCESS"}

\* The API object (its one attribute status), the action of the to-do file
\* that was uploaded, whether results/outputs.json was written, the status
\* of the last response, the number of status calls since create_workflow,
\* and the state that the caller holds for the workflow.
TestApi(status, action, results, reported, polls, state) ==
    [status |-> status, action |-> action, results |-> results,
     reported |-> reported, polls |-> polls, state |-> state]

\* REANATestAPI.__init__: self.status = None
NoApi == TestApi(PyNone, "", FALSE, PyNone, 0, NoneState)

\* get_workflow_status that returns the status it found
api_get_workflow_status_before(a) ==
    LET status == a.status
        after == IF PyIn(status, FS_REANA_STATE_PENDING)
                 THEN [a EXCEPT !.status = PyStr(FS_REANA_STATE_RUNNING[1])]
                 ELSE IF PyIn(status, FS_REANA_STATE_RUNNING)
                 THEN IF a.action = "ERROR"
                      THEN [a EXCEPT !.status = PyStr(FS_REANA_STATE_ERROR[1])]
                      ELSE [a EXCEPT !.status = PyStr(FS_REANA_STATE_SUCCESS[1]),
                                     !.results = TRUE]
                 ELSE a
    IN  [after EXCEPT !.reported = status]

\* REANATestAPI.get_workflow_status: the status attribute is moved on and
\* the new value is returned as the 'status' of a response without 'logs'.
api_get_workflow_status(a) ==
    LET status == a.status
        after == IF PyIn(status, FS_REANA_STATE_PENDING)
                 THEN [a EXCEPT !.status = PyStr(FS_REANA_STATE_RUNNING[1])]
                 ELSE IF PyIn(status, FS_REANA_STATE_RUNNING)
                 THEN IF a.action = "ERROR"
                      THEN [a EXCEPT !.status = PyStr(FS_REANA_STATE_ERROR[1])]
                      ELSE [a EXCEPT !.status = PyStr(FS_REANA_STATE_SUCCESS[1]),
                                     !.results = TRUE]
                 ELSE a
    IN  [after EXCEPT !.reported = after.status]

\* REANATestAPI.create_workflow, the upload of the to-do file, and the
\* pending state the caller starts with.  A workflow that is created after
\* another one takes the place of it: the API object has one status.
ApiCreate ==
    /\ \E action \in Actions :
         api' = TestApi(PyStr(FS_REANA_STATE_PENDING[1]), action, FALSE, PyNone, 0,
                        StatePending(clock))
    /\ UNCHANGED <<store, files, remote, clock, last, uuids, cluster, procs, ccall,
                   cin, cout, mt>>

\* REANAClient.get_workflow_state with REANATestAPI as self.reana
ApiPoll ==
    /\ api # NoApi /\ api.polls < MaxPolls
    /\ LET after == api_get_workflow_status(api)
           r == [status |-> after.reported, logs |-> PyNone]
       IN  api' = [after EXCEPT !.polls = api.polls + 1,
                                !.state = modify_state(r, api.state, clock)]
    /\ UNCHANGED <<store, files, remote, clock, last, uuids, cluster, procs, ccall,
                   cin, cout, mt>>

NextApi ==
    \/ ApiCreate
    \/ ApiPoll
    \/ Tick

-----------------------------------------------------------------------------
(* flowservreana.controller.REANAWorkflowController.modify_template        *)

\* The identifiers of template parameters, in the order of the dictionary
\* of added parameters.
Identifiers == <<"p1", "p2">>

\* The data types of a parameter: a file, or a scalar value.
ParaTypes == {"file", "int"}

\* A template parameter; label stands for what merge takes from the given
\* parameter (name, index, default value, value list, required flag).
Para(identifier, type, label) == [identifier |-> identifier, type |-> type, label |-> label]

\* The data types of the parameters of a dictionary, keyed by identifier.
ParaDicts ==
    UNION {[ids -> ParaTypes] : ids \in SUBSET Range(Identifiers)}

LabelDict(d, label) == [i \in DOMAIN d |-> Para(i, d[i], label)]

\* tp.VARIABLE(identifier): the reference to a parameter in a specification
tp_VARIABLE(identifier) == <<"$[[", identifier, "]]">>

\* A workflow specification: the type of the workflow ("null" when there is
\* none), and the files and parameters sections of its inputs.
WorkflowSpec(type, in_files, in_params) ==
    [type |-> type, files |-> in_files, parameters |-> in_params]

WorkflowTypes == {"serial", "cwl", "null"}

WorkflowSpecs ==
    {WorkflowSpec(t, f, q) :
        t \in WorkflowTypes,
        f \in {<<>>, <<<<"code/run.py">>>>, <<<<"code/run.py">>, tp_VARIABLE("p1")>>},
        q \in {[i \in {} |-> <<>>], [i \in {"p1"} |-> <<"10">>]}}

WorkflowTemplate(workflow_spec, parameters) ==
    [workflow_spec |-> workflow_spec, parameters |-> parameters]

NoTemplate == WorkflowTemplate(WorkflowSpec("", <<>>, [i \in {} |-> <<>>]), [i \in {} |-> <<>>])

\* TemplateParameter.merge of flowserv, as the docstring of modify_template
\* describes it: the existing parameter with the name, index, default
\* value, value list and required flag of the given one.
merge(existing, para) == [existing EXCEPT !.label = para.label]

\* The result of a call: the exception, the template returned, and the
\* template that was passed in as it is after the call.
ModifyResult(exc, result, template) == [exc |-> exc, result |-> result, template |-> template]

\* modify_template that appends to the files section of the template
\* passed in instead of a copy of it
modify_template_no_copy(template, parameters, in_place) ==
    LET workflow_spec == template.workflow_spec
        added == SelectSeq(Identifiers, LAMBDA i : i \in DOMAIN parameters)
        RECURSIVE loop(_, _)
        loop(k, acc) ==
            IF k > Len(added) THEN acc
            ELSE LET given == parameters[added[k]]
                     exists == given.identifier \in DOMAIN acc.para_merge
                     para == IF exists
                             THEN merge(acc.para_merge[given.identifier], given)
                             ELSE given
                     id == para.identifier
                 IN loop(k + 1,
                         [para_merge |-> [i \in DOMAIN acc.para_merge \cup {id} |->
                                             IF i = id THEN para ELSE acc.para_merge[i]],
                          in_files |-> IF para.type = "file"
                                       THEN Append(acc.in_files, tp_VARIABLE(id))
                                       ELSE acc.in_files,
                          in_params |-> IF para.type # "file" /\ id \notin DOMAIN acc.in_params
                                        THEN [i \in DOMAIN acc.in_params \cup {id} |->
                                                 IF i = id THEN tp_VARIABLE(id)
                                                 ELSE acc.in_params[i]]
                                        ELSE acc.in_params,
                          passed |-> IF exists /\ in_place
                                     THEN [acc.passed EXCEPT ![id] = para]
                                     ELSE acc.passed])
        final == loop(1, [para_merge |-> template.parameters,
                          in_files |-> workflow_spec.files,
                          in_params |-> workflow_spec.parameters,
                          passed |-> template.parameters])
    IN
    IF workflow_spec.type # "serial"
    THEN ModifyResult("InvalidTemplateError", NoTemplate, template)
    ELSE ModifyResult("",
             WorkflowTemplate(WorkflowSpec(workflow_spec.type, final.in_files,
                                           final.in_params),
                              final.para_merge),
             WorkflowTemplate(WorkflowSpec(workflow_spec.type, final.in_files,
                                           workflow_spec.parameters),
                              final.passed))

\* modify_template (lines 72-106).  in_place tells whether merge changes
\* the parameter object it is called on, which the dictionary of the template
\* passed in holds too, or returns a new object.
modify_template(template, parameters, in_place) ==
    LET workflow_spec == template.workflow_spec
        added == SelectSeq(Identifiers, LAMBDA i : i \in DOMAIN parameters)
        RECURSIVE loop(_, _)
        loop(k, acc) ==
            IF k > Len(added) THEN acc
            ELSE LET given == parameters[added[k]]
                     exists == given.identifier \in DOMAIN acc.para_merge
                     para == IF exists
                             THEN merge(acc.para_merge[given.identifier], given)
                             ELSE given
                     id == para.identifier
                 IN loop(k + 1,
                         [para_merge |-> [i \in DOMAIN acc.para_merge \cup {id} |->
                                             IF i = id THEN para ELSE acc.para_merge[i]],
                          in_files |-> IF para.type = "file"
                                       THEN Append(acc.in_files, tp_VARIABLE(id))
                                       ELSE acc.in_files,
                          in_params |-> IF para.type # "file" /\ id \notin DOMAIN acc.in_params
                                        THEN [i \in DOMAIN acc.in_params \cup {id} |->
                                                 IF i = id THEN tp_VARIABLE(id)
                                                 ELSE acc.in_params[i]]
                                        ELSE acc.in_params,
                          passed |-> IF exists /\ in_place
                                     THEN [acc.passed EXCEPT ![id] = para]
                                     ELSE acc.passed])
        final == loop(1, [para_merge |-> template.parameters,
                          in_files |-> workflow_spec.files,
                          in_params |-> workflow_spec.parameters,
                          passed |-> template.parameters])
    IN
    IF workflow_spec.type # "serial"
    THEN ModifyResult("InvalidTemplateError", NoTemplate, template)
    ELSE ModifyResult("",
             WorkflowTemplate(WorkflowSpec(workflow_spec.type, final.in_files,
                                           final.in_params),
                              final.para_merge),
             WorkflowTemplate(workflow_spec, final.passed))

\* A call of modify_template: the template and the parameters it is given,
\* how merge works, and its result once it is done.
ModifyCall(template, parameters, in_place, done, out) ==
    [template |-> template, parameters |-> parameters, in_place |-> in_place,
     done |-> done, out |-> out]

NoModifyCall ==
    ModifyCall(NoTemplate, [i \in {} |-> <<>>], FALSE, FALSE,
               ModifyResult("", NoTemplate, NoTemplate))

CallModifyTemplate ==
    /\ mt # NoModifyCall /\ ~mt.done
    /\ mt' = [mt EXCEPT !.done = TRUE,
                        !.out = modify_template(mt.template, mt.parameters, mt.in_place)]
    /\ UNCHANGED <<store, files, remote, clock, last, uuids, cluster, procs, ccall,
                   cin, cout, api>>

NextModify == CallModifyTemplate

-----------------------------------------------------------------------------
(* The two state classifiers called on their own: modify_state, and the    *)
(* if/elif chain of get_state.                                             *)

\* The stage a classifier moves the current state to, "NoChange" if none.
Target(current_state, new_state) ==
    IF new_state.type = current_state.type THEN "NoChange"
    ELSE IF is_running(new_state) THEN "Running"
    ELSE IF is_error(new_state) THEN "Error"
    ELSE "Success"

\* Workflow states of every stage, as the constructors build them.
ClassifierStates ==
    {StatePending(0)}
    \cup {StateRunning(0, s) : s \in Times}
    \cup {StateError(0, s, s, PyList(<<"canceled by user">>)) : s \in Times}
    \cup {StateSuccess(0, s, s, NoResources) : s \in Times}

ClassifierInput(status, logs, state, by) ==
    [status |-> status, logs |-> logs, state |-> state, by |-> by]

ClassifierResult(target, state) == [target |-> target, state |-> state]

CallModifyState ==
    /\ cin.by = ""
    /\ LET new_state == modify_state([status |-> cin.status, logs |-> cin.logs],
                                     cin.state, clock)
       IN cout' = ClassifierResult(Target(cin.state, new_state), new_state)
    /\ cin' = [cin EXCEPT !.by = "modify_state"]
    /\ UNCHANGED <<store, files, remote, clock, last, uuids, cluster, procs, ccall, api, mt>>

CallGetStateBranch ==
    /\ cin.by = ""
    /\ cout' = ClassifierResult(get_state_branch(cin.status, cin.state), NoneState)
    /\ cin' = [cin EXCEPT !.by = "get_state"]
    /\ UNCHANGED <<store, files, remote, clock, last, uuids, cluster, procs, ccall, api, mt>>

InitClassify ==
    /\ store = [r \in RunIds |-> NoRun]
    /\ files = [r \in RunIds |-> {}]
    /\ remote = [w \in WorkflowIds |-> "none"]
    /\ clock \in Times
    /\ last = Outcome("", "", "", NoneState, <<>>, NoResponse)
    /\ uuids = {"r1"}
    /\ cluster = ClusterInit
    /\ procs = NoProcs
    /\ ccall = NoClientCall
    /\ \E status \in StatusValues, logs \in LogValues, state \in ClassifierStates :
         cin = ClassifierInput(status, logs, state, "")
    /\ cout = ClassifierResult("", NoneState)
    /\ api = NoApi
    /\ mt = NoModifyCall

NextClassify == CallModifyState \/ CallGetStateBranch

SpecClassify == InitClassify /\ [][NextClassify]_vars

Init ==
    /\ store = [r \in RunIds |-> NoRun]
    /\ files = [r \in RunIds |-> {}]
    /\ remote = [w \in WorkflowIds |-> "none"]
    /\ clock = 0
    /\ last = Outcome("", "", "", NoneState, <<>>, NoResponse)
    /\ uuids = {"r1"}
    /\ cluster = ClusterInit
    /\ procs = NoProcs
    /\ ccall = NoClientCall
    /\ cin = ClassifierInput(PyNone, PyNone, NoneState, "")
    /\ cout = ClassifierResult("", NoneState)
    /\ api = NoApi
    /\ mt = NoModifyCall

Next ==
    \/ Execute
    \/ \E run_id \in RunIds : GetState(run_id)
    \/ \E run_id \in RunIds : CancelRun(run_id)
    \/ Tick

Spec == Init /\ [][Next]_vars

\* The caller keeps polling, the workflow proceeds to failed or finished,
\* and the downloads work in the end.
SpecPoll ==
    /\ Init /\ [][NextPoll]_vars
    /\ WF_vars(ClusterStep)
    /\ WF_vars(ClusterFiles)
    /\ \A run_id \in RunIds : WF_vars(Poll(run_id))

\* The polling loop of the unit test with REANATestClient.
SpecTestClient ==
    /\ Init /\ [][NextTestClient]_vars
    /\ WF_vars(ClusterStep)
    /\ WF_vars(ClusterFiles)
    /\ \A run_id \in RunIds : WF_vars(PollTestClient(run_id))

\* A workflow at the REANATestAPI that is polled.
SpecApi == Init /\ [][NextApi]_vars

\* Calls of modify_template for every template and every dictionary of
\* added parameters.
InitModify ==
    /\ store = [r \in RunIds |-> NoRun]
    /\ files = [r \in RunIds |-> {}]
    /\ remote = [w \in WorkflowIds |-> "none"]
    /\ clock = 0
    /\ last = Outcome("", "", "", NoneState, <<>>, NoResponse)
    /\ uuids = {"r1"}
    /\ cluster = ClusterInit
    /\ procs = NoProcs
    /\ ccall = NoClientCall
    /\ cin = ClassifierInput(PyNone, PyNone, NoneState, "")
    /\ cout = ClassifierResult("", NoneState)
    /\ api = NoApi
    /\ \E workflow_spec \in WorkflowSpecs, tparas \in ParaDicts,
          aparas \in ParaDicts, in_place \in BOOLEAN :
         mt = ModifyCall(WorkflowTemplate(workflow_spec, LabelDict(tparas, "template")),
                         LabelDict(aparas, "added"), in_place, FALSE,
                         ModifyResult("", NoTemplate, NoTemplate))

SpecModify == InitModify /\ [][NextModify]_vars

\* Two runs of one engine: both identifiers can be given to a run, and the
\* calls are made at one time.
InitTwo ==
    /\ store = [r \in RunIds |-> NoRun]
    /\ files = [r \in RunIds |-> {}]
    /\ remote = [w \in WorkflowIds |-> "none"]
    /\ clock = 0
    /\ last = Outcome("", "", "", NoneState, <<>>, NoResponse)
    /\ uuids = RunIds
    /\ cluster = ClusterInit
    /\ procs = NoProcs
    /\ ccall = NoClientCall
    /\ cin = ClassifierInput(PyNone, PyNone, NoneState, "")
    /\ cout = ClassifierResult("", NoneState)
    /\ api = NoApi
    /\ mt = NoModifyCall

NextTwo ==
    \/ Execute
    \/ \E run_id \in RunIds : GetState(run_id)
    \/ \E run_id \in RunIds : CancelRun(run_id)

SpecTwo == InitTwo /\ [][NextTwo]_vars

\* Two callers of the engine at the same time.
InitConc ==
    /\ store = [r \in RunIds |-> NoRun]
    /\ files = [r \in RunIds |-> {}]
    /\ remote = [w \in WorkflowIds |-> "none"]
    /\ clock = 0
    /\ last = Outcome("", "", "", NoneState, <<>>, NoResponse)
    /\ uuids = {"r1"}
    /\ cluster = ClusterInit
    /\ procs = [p \in Procs |-> IdleProc]
    /\ ccall = NoClientCall
    /\ cin = ClassifierInput(PyNone, PyNone, NoneState, "")
    /\ cout = ClassifierResult("", NoneState)
    /\ api = NoApi
    /\ mt = NoModifyCall

SpecConc == InitConc /\ [][NextConc]_vars

\* A method of a client is called once, with every input.
InitClient ==
    /\ store = [r \in RunIds |-> NoRun]
    /\ files = [r \in RunIds |-> {}]
    /\ remote = [w \in WorkflowIds |-> "none"]
    /\ clock = 0
    /\ last = Outcome("", "", "", NoneState, <<>>, NoResponse)
    /\ uuids = {"r1"}
    /\ cluster = ClusterInit
    /\ procs = NoProcs
    /\ cin = ClassifierInput(PyNone, PyNone, NoneState, "")
    /\ cout = ClassifierResult("", NoneState)
    /\ api = NoApi
    /\ mt = NoModifyCall
    /\ \E client \in Clients, method \in ClientMethods, workflow_id \in WorkflowIds,
          source \in Sources \cup {NoSource}, api_ok \in BOOLEAN :
         /\ (method = "upload_file") = (source # NoSource)
         /\ ccall = ClientCall(client, method, workflow_id, source, api_ok, FALSE,
                               ClientOutcome("", <<>>))

NextClient == CallClient

SpecClient == InitClient /\ [][NextClient]_vars

-----------------------------------------------------------------------------
(* Properties *)

Exists(r) == store[r].exists
Stage(r) == store[r].state.type
Terminal(r) == Exists(r) /\ Stage(r) \in {"ERROR", "SUCCESS"}
Active(r) == Exists(r) /\ Stage(r) \in {"PENDING", "RUNNING"}
Downloads(out) ==
    {i \in 1..Len(out.effects) : out.effects[i].call = "download_file"}

\* C1: a get_state on a run whose persisted state is an error or a success
\* state returns the persisted state, calls no operation of the cluster
\* (no status, no download) and does not write the record, however often it
\* is called and whatever the cluster would report.
C1_TerminalGetStateIsLocalRead ==
    [][\A r \in RunIds :
         (Terminal(r) /\ GetState(r)) =>
            /\ last'.exc = ""
            /\ last'.ret = store[r].state
            /\ RemoteCalls(last') = <<>>
            /\ ~Wrote(last')
            /\ store' = store
            /\ files' = files]_vars

\* a get_state has returned the persisted error state of a run without a call
C1_Witness ==
    /\ last.op = "get_state" /\ last.exc = "" /\ last.effects = <<>>
    /\ Terminal(last.run)
    /\ last.ret = store[last.run].state
    /\ last.ret.type = "ERROR"

Rank(state) ==
    IF state.type = "PENDING" THEN 0 ELSE IF state.type = "RUNNING" THEN 1 ELSE 2

\* C2: in every step of get_state and cancel_run calls made one at a time,
\* the persisted stage of a run does not regress: it moves only along
\* Pending -> Running -> {Error, Success}, and an Error or Success stage
\* stays what it is.
C2_StageNeverRegresses ==
    [][\A r \in RunIds :
         (Exists(r) /\ store'[r].exists) =>
            /\ Rank(store'[r].state) >= Rank(store[r].state)
            /\ Terminal(r) => store'[r].state.type = Stage(r)]_vars

\* a running run has been moved to the error state by a cancel_run, and a
\* get_state has left it there
C2_Witness ==
    /\ last.op = "get_state" /\ Terminal(last.run)
    /\ Stage(last.run) = "ERROR"
    /\ store[last.run].state.messages = PyList(<<"canceled by user">>)
    /\ store[last.run].state.started_at < store[last.run].state.stopped_at

\* The four vocabularies of the status tokens, as literal tables.
PendingTokens == {PyStr("created"), PyStr("queued")}
RunningTokens == {PyStr("running")}
ErrorTokens == {PyStr("failed"), PyStr("stopped"), PyStr("deleted")}
SuccessTokens == {PyStr("finished")}

\* The table of the classification as the claim states it, first match wins.
TableAsClaimed(status, state) ==
    IF status \in RunningTokens /\ state.type # "RUNNING"
    THEN "Running"
    ELSE IF status \in ErrorTokens /\ state.type \in {"PENDING", "RUNNING"}
    THEN "Error"
    ELSE IF status \in SuccessTokens /\ state.type \in {"PENDING", "RUNNING"}
    THEN "Success"
    ELSE "NoChange"

\* The table with its first row for the pending stage only.
TableAmended(status, state) ==
    IF status \in RunningTokens /\ state.type = "PENDING"
    THEN "Running"
    ELSE IF status \in ErrorTokens /\ state.type \in {"PENDING", "RUNNING"}
    THEN "Error"
    ELSE IF status \in SuccessTokens /\ state.type \in {"PENDING", "RUNNING"}
    THEN "Success"
    ELSE "NoChange"

\* C3 as claimed: both classifiers give, for every status token and every
\* current stage, the target of the ordered table whose first row is 'a
\* running token and a current stage that is not Running gives Running'.
C3_TableAsClaimed ==
    cin.by # "" => cout.target = TableAsClaimed(cin.status, cin.state)

\* C3: both classifiers give, for every status token and every current
\* stage, the target of the table: a running token on the Pending stage
\* gives Running, an error token on an active stage gives Error, a success
\* token on an active stage gives Success, and everything else (pending
\* tokens, 'running' on a Running or a terminal stage, any token on a
\* terminal stage, unknown or missing tokens) gives no change.
C3_ClassificationTable ==
    cin.by # "" => cout.target = TableAmended(cin.status, cin.state)

\* modify_state has been called with 'running' for an error state and has
\* returned it as it was
C3_Witness ==
    /\ cin.by = "modify_state" /\ cin.status = PyStr("running")
    /\ cin.state.type = "ERROR"
    /\ cout.target = "NoChange" /\ cout.state = cin.state

\* The polls the claim lists as giving no change.
NoChangePoll(status, state) ==
    \/ status = PyNone
    \/ status \in PendingTokens
    \/ status \in RunningTokens /\ state.type = "RUNNING"
    \/ status \notin PendingTokens \cup RunningTokens \cup ErrorTokens \cup SuccessTokens

\* C4: a get_state on an active run that receives a status that is missing,
\* unknown, in the pending vocabulary, or 'running' while the run is
\* running, raises nothing, returns the stored state, does not write the
\* record and downloads no file.
C4_NoChangePollIsSilent ==
    [][\A r \in RunIds :
         (/\ Active(r) /\ GetState(r)
          /\ last'.resp.received
          /\ NoChangePoll(last'.resp.status, store[r].state)) =>
            /\ last'.exc = ""
            /\ last'.ret = store[r].state
            /\ ~Wrote(last')
            /\ store' = store
            /\ Downloads(last') = {}
            /\ files' = files]_vars

\* a get_state on a running run has received 'running' and returned the
\* stored state after the status call only
C4_Witness ==
    /\ last.op = "get_state" /\ last.exc = ""
    /\ last.resp.received /\ last.resp.status = PyStr("running")
    /\ Active(last.run) /\ Stage(last.run) = "RUNNING"
    /\ last.ret = store[last.run].state
    /\ Len(last.effects) = 1 /\ last.effects[1].call = "get_workflow_status"

OutputNameSet == {OutputNames[i] : i \in 1..Len(OutputNames)}

\* C5: in every persisted record the resources are non-empty only in a
\* success state, and the keys of the resources of a success state are
\* exactly the declared output files of the run.
C5_ResourcesAreDeclaredOutputs ==
    \A r \in RunIds :
        Exists(r) =>
            /\ DOMAIN store[r].state.resources # {} => Stage(r) = "SUCCESS"
            /\ Stage(r) = "SUCCESS" =>
                  \A name \in OutputNameSet :
                     name \in DOMAIN store[r].state.resources
                        <=> \E i \in 1..Len(store[r].outputs) :
                               store[r].outputs[i] = name

\* a run with two declared output files is in the success state
C5_Witness ==
    \E r \in RunIds :
        /\ Exists(r) /\ Stage(r) = "SUCCESS"
        /\ Len(store[r].outputs) = 2
        /\ DOMAIN store[r].state.resources = {"a.txt", "b.txt"}

\* The download calls of an engine call, in order.
IsDownload(c) == c.call = "download_file"
DownloadSeq(out) == SelectSeq(out.effects, IsDownload)

\* C6: a get_state on the pending run that execute has created, with the
\* cluster reporting 'running', persists a running state with started_at
\* set; a later get_state with the cluster reporting 'finished' (and no
\* download failing) persists a success state, has called download_file
\* once for each declared output file, and the resources map each declared
\* output file to its path under the files folder of the run.
C6_HappyPath ==
    [][\A r \in RunIds :
         /\ (/\ Active(r) /\ Stage(r) = "PENDING" /\ GetState(r)
             /\ last'.resp.received /\ last'.resp.status = PyStr("running")) =>
               /\ store'[r].state.type = "RUNNING"
               /\ store'[r].state.started_at = clock
               /\ store'[r].state.started_at \in Times
               /\ store'[r].state.created_at = store[r].state.created_at
         /\ (/\ Active(r) /\ Stage(r) = "RUNNING" /\ GetState(r)
             /\ last'.resp.received /\ last'.resp.status = PyStr("finished")
             /\ last'.exc = "") =>
               /\ store'[r].state.type = "SUCCESS"
               /\ Len(DownloadSeq(last')) = Len(store[r].outputs)
               /\ \A i \in 1..Len(store[r].outputs) :
                     /\ DownloadSeq(last')[i].arg = store[r].outputs[i]
                     /\ DownloadSeq(last')[i].wf = store[r].workflowId
                     /\ store[r].outputs[i] \in files'[r]
                     /\ store'[r].state.resources[store[r].outputs[i]]
                            = <<r, "files", store[r].outputs[i]>>
               /\ DOMAIN store'[r].state.resources
                     = {store[r].outputs[i] : i \in 1..Len(store[r].outputs)}]_vars

\* a run with the output files a.txt and b.txt that was seen running at an
\* earlier poll has been moved to the success state by a poll
C6_Witness ==
    /\ last.op = "get_state" /\ last.exc = ""
    /\ last.resp.received /\ last.resp.status = PyStr("finished")
    /\ Exists(last.run) /\ Stage(last.run) = "SUCCESS"
    /\ store[last.run].outputs = <<"a.txt", "b.txt">>
    /\ store[last.run].state.started_at < store[last.run].state.finished_at
    /\ files[last.run] = {"a.txt", "b.txt"}
    /\ Len(DownloadSeq(last)) = 2

\* C7: a get_state on an active run that receives an error status without
\* a 'logs' element does not fail, and persists an error state whose
\* messages are the list ['unknown reason'].
C7_ErrorWithoutLogs ==
    [][\A r \in RunIds :
         (/\ Active(r) /\ GetState(r)
          /\ last'.resp.received /\ last'.resp.status \in ErrorTokens
          /\ last'.resp.logs = PyNone) =>
            /\ last'.exc = ""
            /\ store'[r].state.type = "ERROR"
            /\ store'[r].state.messages = PyList(<<"unknown reason">>)]_vars

\* C8: a get_state on an active run that receives an error status with the
\* logs L persists an error state with stopped_at set whose messages are
\* the list [L], of length 1.
C8_ErrorWithLogs ==
    [][\A r \in RunIds :
         (/\ Active(r) /\ GetState(r)
          /\ last'.resp.received /\ last'.resp.status \in ErrorTokens
          /\ last'.resp.logs # PyNone) =>
            /\ last'.exc = ""
            /\ store'[r].state.type = "ERROR"
            /\ store'[r].state.stopped_at = clock
            /\ store'[r].state.messages = PyList(<<last'.resp.logs.s>>)
            /\ PyLen(store'[r].state.messages) = 1]_vars

\* C9: for an active run, a get_state whose status call fails, and a
\* get_state that receives a success status and whose download of any one
\* declared output file fails, raises REANABackendError without writing
\* the record, which stays what it was; a next get_state that receives the
\* same status with every download succeeding makes the transition.
C9_FailedPollKeepsRecord ==
    \A r \in RunIds :
        Active(r) =>
            \A response \in Responses, partial \in BOOLEAN :
                /\ LET res == get_state(store[r], files[r], r, clock, response,
                                        FALSE, 0, FALSE)
                   IN /\ res.out.exc = "REANABackendError"
                      /\ res.obj = store[r]
                      /\ ~Wrote(res.out)
                /\ response.status \in SuccessTokens =>
                     \A fail_at \in 1..Len(store[r].outputs) :
                        LET res == get_state(store[r], files[r], r, clock, response,
                                             TRUE, fail_at, partial)
                            again == get_state(res.obj, res.files, r, clock, response,
                                               TRUE, 0, FALSE)
                        IN /\ res.out.exc = "REANABackendError"
                           /\ res.obj = store[r]
                           /\ ~Wrote(res.out)
                           /\ again.out.exc = ""
                           /\ again.obj.state.type = "SUCCESS"
                           /\ again.obj.state.created_at = store[r].state.created_at

\* a get_state on a running run has raised REANABackendError at the second
\* of its two downloads, and the run is still running
C9_Witness ==
    /\ last.op = "get_state" /\ last.exc = "REANABackendError"
    /\ Len(DownloadSeq(last)) = 2
    /\ Active(last.run) /\ Stage(last.run) = "RUNNING"
    /\ "a.txt" \in files[last.run]

\* C10: a cancel_run on a run whose persisted state is an error or a
\* success state leaves the record as it is, calls no operation of the
\* cluster, raises nothing and returns the stored state.
C10_CancelTerminalIsNoOp ==
    [][\A r \in RunIds :
         (Terminal(r) /\ CancelRun(r)) =>
            /\ store' = store
            /\ files' = files
            /\ remote' = remote
            /\ RemoteCalls(last') = <<>>
            /\ ~Wrote(last')
            /\ last'.exc = ""
            /\ last'.ret = store[r].state]_vars

\* a cancel_run has returned the stored error state that a poll had
\* persisted
C10_Witness ==
    /\ last.op = "cancel_run" /\ last.exc = "" /\ last.effects = <<>>
    /\ Terminal(last.run) /\ Stage(last.run) = "ERROR"
    /\ store[last.run].state.messages.kind = "str"
    /\ last.ret = store[last.run].state

\* C11 as claimed: a cancel_run on an active run persists an error state
\* with the messages ['canceled by user'], stopped_at set, and created_at
\* and started_at as they were before the call.
C11_CancelAsClaimed ==
    [][\A r \in RunIds :
         (Active(r) /\ CancelRun(r)) =>
            /\ store'[r].state.type = "ERROR"
            /\ store'[r].state.messages = PyList(<<"canceled by user">>)
            /\ store'[r].state.stopped_at = clock
            /\ store'[r].state.created_at = store[r].state.created_at
            /\ store'[r].state.started_at = store[r].state.started_at]_vars

\* C11: a cancel_run that does not raise, on a pending or a running run,
\* persists an error state with the messages ['canceled by user'],
\* stopped_at set to the time of the call, created_at as before, and
\* started_at as before for a running run and set to the time of the call
\* for a pending run; a get_state after it returns that state, which has
\* one message, without a call of the cluster.  A cancel_run that raises
\* (the stop request of a running run failed) leaves the record as it was.
C11_CancelActiveRun ==
    [][\A r \in RunIds :
         (Active(r) /\ CancelRun(r)) =>
            IF last'.exc = ""
            THEN /\ store'[r].state.type = "ERROR"
                 /\ store'[r].state.messages = PyList(<<"canceled by user">>)
                 /\ store'[r].state.stopped_at = clock
                 /\ store'[r].state.created_at = store[r].state.created_at
                 /\ store'[r].state.started_at =
                       IF Stage(r) = "RUNNING" THEN store[r].state.started_at ELSE clock
                 /\ Wrote(last')
                 /\ \A response \in Responses :
                       LET res == get_state(store'[r], files'[r], r, clock', response,
                                            TRUE, 0, FALSE)
                       IN /\ res.out.ret = store'[r].state
                          /\ res.out.exc = "" /\ res.out.effects = <<>>
                          /\ PyLen(res.out.ret.messages) = 1
            ELSE /\ Stage(r) = "RUNNING" /\ last'.exc = "REANABackendError"
                 /\ store' = store]_vars

\* a cancel_run has moved a run that was started before the call to the
\* error state
C11_Witness ==
    /\ last.op = "cancel_run" /\ last.exc = "" /\ Wrote(last)
    /\ Exists(last.run) /\ Stage(last.run) = "ERROR"
    /\ store[last.run].state.messages = PyList(<<"canceled by user">>)
    /\ store[last.run].state.created_at < store[last.run].state.started_at
    /\ store[last.run].state.started_at < store[last.run].state.stopped_at

\* C12 as claimed: a cancel_run on a running run raises nothing and
\* persists the error state, whether or not the stop request succeeds.
C12_StopFailureTolerated ==
    [][\A r \in RunIds :
         (Exists(r) /\ Stage(r) = "RUNNING" /\ CancelRun(r)) =>
            /\ last'.exc = ""
            /\ store'[r].state.type = "ERROR"
            /\ Wrote(last')]_vars

\* C12: a cancel_run on a running run persists the error state when the
\* stop request succeeds; when the stop request fails, cancel_run raises
\* REANABackendError after the one stop call, writes nothing and the record
\* stays what it was.
C12_StopFailureIsRaised ==
    \A r \in RunIds :
        (Exists(r) /\ Stage(r) = "RUNNING") =>
            /\ LET res == cancel_run(store[r], files[r], r, clock, TRUE)
               IN /\ res.out.exc = ""
                  /\ res.obj.state.type = "ERROR"
                  /\ Wrote(res.out)
            /\ LET res == cancel_run(store[r], files[r], r, clock, FALSE)
               IN /\ res.out.exc = "REANABackendError"
                  /\ res.obj = store[r]
                  /\ ~Wrote(res.out)
                  /\ Len(res.out.effects) = 1
                  /\ res.out.effects[1].call = "stop_workflow"

\* a cancel_run on a running run has raised REANABackendError and the run
\* is still running
C12_Witness ==
    /\ last.op = "cancel_run" /\ last.exc = "REANABackendError"
    /\ Exists(last.run) /\ Stage(last.run) = "RUNNING"
    /\ Len(last.effects) = 1 /\ last.effects[1].call = "stop_workflow"

\* C13: a cancel_run calls stop_workflow exactly when the stored state is a
\* running state, once and with the workflow identifier of the record; it
\* makes no other call of the cluster, and moves a pending run to the error
\* state without any call.
C13_StopOnlyWhenRunning ==
    [][\A r \in RunIds :
         (Exists(r) /\ CancelRun(r)) =>
            /\ RemoteCalls(last') =
                  IF Stage(r) = "RUNNING"
                  THEN <<[call |-> "stop_workflow", wf |-> store[r].workflowId,
                          arg |-> ""]>>
                  ELSE <<>>
            /\ Stage(r) = "PENDING" =>
                  /\ last'.exc = ""
                  /\ store'[r].state.type = "ERROR"]_vars

\* a cancel_run has moved a pending run to the error state with no call of
\* the cluster
C13_Witness ==
    /\ last.op = "cancel_run" /\ last.exc = ""
    /\ Len(last.effects) = 1 /\ last.effects[1].call = "write_object"
    /\ Exists(last.run) /\ Stage(last.run) = "ERROR"
    /\ remote[store[last.run].workflowId] = "started"

\* C14: a get_state and a cancel_run for a run identifier without a run
\* folder raise UnknownRunError, call no operation of the cluster and leave
\* the run folders, their records and their files as they are.
C14_UnknownRun ==
    [][\A r \in RunIds :
         (~Exists(r) /\ (GetState(r) \/ CancelRun(r))) =>
            /\ last'.exc = "UnknownRunError"
            /\ last'.run = r
            /\ last'.effects = <<>>
            /\ store' = store
            /\ files' = files
            /\ remote' = remote]_vars

\* a cancel_run for the identifier of no run has raised UnknownRunError
\* while another run exists
C14_Witness ==
    /\ last.op = "cancel_run" /\ last.exc = "UnknownRunError"
    /\ ~Exists(last.run)
    /\ \E r \in RunIds : Exists(r)

\* The calls of execute that can be made in a state: a new run identifier
\* and the identifier the cluster gives to the next workflow.
CanExecute(id, w) ==
    /\ id \in uuids /\ ~store[id].exists
    /\ remote[w] = "none"
    /\ \A v \in 1..MaxWorkflows : v < w => remote[v] # "none"

\* The calls of the cluster that execute makes when no step fails.
ExecuteCalls(w, n_up) ==
    <<[call |-> "create_workflow", wf |-> 0, arg |-> ""]>>
        \o [i \in 1..n_up |-> [call |-> "upload_file", wf |-> w, arg |-> InputNames[i]]]
        \o <<[call |-> "start_workflow", wf |-> w, arg |-> ""]>>

\* C15: an execute that fails in a step after the run folder was made
\* (expanding the specification, creating the workflow, an upload, the
\* start, writing the state file) removes the run folder, raises the error
\* of that step and returns no identifier; after it there is no folder,
\* record or file for the run.
C15_FailedExecuteRollsBack ==
    [][\A id \in RunIds :
         (ExecuteRun(id) /\ last'.exc # "") =>
            LET e == last'.effects
                k == Len(e)
            IN /\ k >= 2
               /\ e[1] = [call |-> "makedirs", wf |-> 0, arg |-> id]
               /\ e[k] = [call |-> "rmtree", wf |-> 0, arg |-> id]
               /\ \A i \in 2..(k - 1) : e[i].call \notin {"makedirs", "rmtree"}
               /\ last'.exc \in {"InvalidTemplateError", "REANABackendError", "IOError"}
               /\ last'.exc = "REANABackendError" =>
                     e[k - 1].call \in {"create_workflow", "upload_file", "start_workflow"}
               /\ last'.exc = "IOError" => e[k - 1].call = "start_workflow"
               /\ last'.exc = "InvalidTemplateError" => k = 2
               /\ last'.ret = NoneState
               /\ ~store'[id].exists
               /\ files'[id] = {}
               /\ \A r \in RunIds \ {id} : store'[r] = store[r]]_vars

\* an execute has failed in an upload and removed its run folder
C15_Witness ==
    /\ last.op = "execute" /\ last.exc = "REANABackendError"
    /\ Len(last.effects) >= 4
    /\ last.effects[Len(last.effects) - 1].call = "upload_file"
    /\ last.effects[Len(last.effects)].call = "rmtree"
    /\ ~Exists(last.run)

\* C16 as claimed: an execute in which the creation of the workflow fails
\* makes no run folder at any point of the call.
C16_CreateBeforeRunFolder ==
    [][\A id \in RunIds :
         (/\ ExecuteRun(id)
          /\ last'.exc = "REANABackendError"
          /\ RemoteCalls(last') = <<[call |-> "create_workflow", wf |-> 0, arg |-> ""]>>) =>
            \A i \in 1..Len(last'.effects) : last'.effects[i].call # "makedirs"]_vars

\* C16: execute makes the run folder before it creates the workflow; when
\* the creation of the workflow fails, the folder that was made is removed
\* before the call ends, no record or file of the run remains, and the
\* caller gets the REANABackendError of the client.
C16_RunFolderBeforeCreate ==
    \A id \in RunIds, w \in 1..MaxWorkflows, outs \in OutputLists, n_up \in 0..MaxUploads :
        CanExecute(id, w) =>
            LET res == execute(id, w, outs, n_up, 2, clock)
            IN /\ res.out.exc = "REANABackendError"
               /\ res.out.effects =
                     << [call |-> "makedirs", wf |-> 0, arg |-> id],
                        [call |-> "create_workflow", wf |-> 0, arg |-> ""],
                        [call |-> "rmtree", wf |-> 0, arg |-> id] >>
               /\ ~res.obj.exists
               /\ res.files = {}

\* an execute has failed in the creation of the workflow, after it made
\* the run folder
C16_Witness ==
    /\ last.op = "execute" /\ last.exc = "REANABackendError"
    /\ Len(last.effects) = 3
    /\ last.effects[1].call = "makedirs"
    /\ last.effects[2].call = "create_workflow"
    /\ last.effects[3].call = "rmtree"
    /\ ~Exists(last.run)

C18_RemoteCallOrder ==
    \A id \in RunIds, w \in 1..MaxWorkflows, outs \in OutputLists, n_up \in 0..MaxUploads :
        CanExecute(id, w) =>
            \A fail_at \in 0..(n_up + 4) :
                LET res == execute(id, w, outs, n_up, fail_at, clock)
                    calls == RemoteCalls(res.out)
                    n == IF fail_at = 0 \/ fail_at > n_up + 3 THEN n_up + 2
                         ELSE fail_at - 1
                    e == res.out.effects
                IN /\ calls = SubSeq(ExecuteCalls(w, n_up), 1, n)
                   /\ (\E i \in 1..Len(e) : e[i].call = "write_object") <=> fail_at = 0
                   /\ fail_at = 0 =>
                         /\ e[Len(e)].call = "write_object"
                         /\ e[Len(e) - 1].call = "start_workflow"

\* an execute has uploaded a file, started the workflow and then failed to
\* write the state file
C18_Witness ==
    /\ last.op = "execute" /\ last.exc = "IOError"
    /\ Len(last.effects) = 5
    /\ last.effects[2].call = "create_workflow"
    /\ last.effects[3].call = "upload_file"
    /\ last.effects[4].call = "start_workflow"
    /\ last.effects[5].call = "rmtree"

\* C20: the timestamps of every persisted state are ordered: created_at is
\* not after started_at when the run has one, and started_at is not after
\* stopped_at or finished_at; this holds for a pending run that was
\* canceled, too.
C20_TimestampsOrdered ==
    \A r \in RunIds :
        Exists(r) =>
            LET state == store[r].state
            IN /\ state.created_at >= 0
               /\ state.type = "PENDING" => state.started_at = -1
               /\ state.type \in {"RUNNING", "ERROR", "SUCCESS"} =>
                     state.created_at <= state.started_at
               /\ state.type = "ERROR" =>
                     /\ state.started_at <= state.stopped_at
                     /\ state.finished_at = -1
               /\ state.type = "SUCCESS" =>
                     /\ state.started_at <= state.finished_at
                     /\ state.stopped_at = -1
               /\ state.type \in {"PENDING", "RUNNING"} =>
                     /\ state.stopped_at = -1
                     /\ state.finished_at = -1

\* a run that was created, started and canceled at three different times
C20_Witness ==
    \E r \in RunIds :
        /\ Exists(r) /\ Stage(r) = "ERROR"
        /\ store[r].state.created_at < store[r].state.started_at
        /\ store[r].state.started_at < store[r].state.stopped_at
        /\ last.op = "cancel_run" /\ last.exc = "" /\ last.run = r

\* C19: a run that is polled again and again, while the cluster comes to
\* report a failed or finished workflow and the downloads work in the end,
\* reaches an error or a success state.
C19_PollingTerminates ==
    \A r \in RunIds : Exists(r) ~> Terminal(r)

\* The polled run reaches an error or a success state unless the cluster
\* reports the failed workflow without logs.
PollingTerminatesWithLogs ==
    \A r \in RunIds :
        Exists(r) ~> (Terminal(r) \/ (cluster.status = "failed" /\ cluster.logs = PyNone))

\* C21: every get_state that changes the state keeps created_at; it keeps
\* started_at of a running run, and gives a pending run the time of the
\* poll as started_at, which is then equal to stopped_at or finished_at
\* when the run goes to the error or the success state at once.
C21_GetStateTimestamps ==
    [][\A r \in RunIds :
         (Active(r) /\ GetState(r) /\ store'[r].state.type # Stage(r)) =>
            /\ store'[r].state.created_at = store[r].state.created_at
            /\ Stage(r) = "RUNNING" =>
                  store'[r].state.started_at = store[r].state.started_at
            /\ Stage(r) = "PENDING" =>
                  /\ store'[r].state.started_at = clock
                  /\ store'[r].state.type = "ERROR" =>
                        store'[r].state.stopped_at = store'[r].state.started_at
                  /\ store'[r].state.type = "SUCCESS" =>
                        store'[r].state.finished_at = store'[r].state.started_at]_vars

\* a poll has moved a run to the success state that was started at an
\* earlier time than the poll, which is later than its creation
C21_Witness ==
    /\ last.op = "get_state" /\ last.exc = "" /\ Wrote(last)
    /\ Exists(last.run) /\ Stage(last.run) = "SUCCESS"
    /\ store[last.run].state.created_at < store[last.run].state.started_at
    /\ store[last.run].state.started_at < store[last.run].state.finished_at
    /\ store[last.run].state.finished_at = clock

C28_DownloadedOnce ==
    [][\A r \in RunIds :
         (Exists(r) /\ GetState(r)) =>
            \A i \in 1..Len(last'.effects) :
               last'.effects[i].call = "download_file" =>
                  last'.effects[i].arg \notin files[r]]_vars

\* C28: the get_state that writes the success state downloads every output
\* file of the record once, in their order, whatever earlier polls have
\* written to the files folder; a get_state that does not write it has
\* downloaded the first output files only, up to the one whose download
\* raised; a get_state on an error or success state, a cancel_run and an
\* execute download nothing.
C28_DownloadsAtSuccess ==
    [][\A r \in RunIds :
         /\ (Exists(r) /\ GetState(r)) =>
               LET dl == DownloadSeq(last')
                   outs == store[r].outputs
               IN /\ Len(dl) <= Len(outs)
                  /\ \A i \in 1..Len(dl) :
                        dl[i].arg = outs[i] /\ dl[i].wf = store[r].workflowId
                  /\ IF Stage(r) \in {"PENDING", "RUNNING"} /\ store'[r].state.type = "SUCCESS"
                     THEN Len(dl) = Len(outs) /\ files'[r] = files[r] \cup Range(outs)
                     ELSE /\ store'[r] = store[r]
                             \/ store'[r].state.type \in {"RUNNING", "ERROR"}
                          /\ Len(dl) > 0 => last'.exc = "REANABackendError"
                  /\ Stage(r) \in {"ERROR", "SUCCESS"} => Len(dl) = 0
         /\ (CancelRun(r) \/ ExecuteRun(r)) => Len(DownloadSeq(last')) = 0]_vars

\* a poll of a pending run with two output files has failed in the second
\* download, which left both files in the files folder
C28_Witness ==
    /\ last.op = "get_state" /\ last.exc = "REANABackendError"
    /\ Exists(last.run) /\ Stage(last.run) = "PENDING"
    /\ store[last.run].outputs = <<"a.txt", "b.txt">>
    /\ files[last.run] = {"a.txt", "b.txt"}

\* C30: a get_state or a cancel_run on a run, whatever its outcome, leaves
\* the workflow identifier and the output files of the record as execute
\* wrote them, and the run folder in place.
C30_RecordFrame ==
    [][\A r \in RunIds :
         (Exists(r) /\ (GetState(r) \/ CancelRun(r))) =>
            /\ store'[r].exists
            /\ store'[r].workflowId = store[r].workflowId
            /\ store'[r].outputs = store[r].outputs
            /\ DOMAIN store'[r] = DOMAIN store[r]]_vars

\* a cancel_run has written the error state of a run that has two output
\* files and a workflow at the cluster
C30_Witness ==
    /\ last.op = "cancel_run" /\ last.exc = "" /\ Wrote(last)
    /\ Exists(last.run) /\ Stage(last.run) = "ERROR"
    /\ store[last.run].outputs = <<"a.txt", "b.txt">>
    /\ store[last.run].workflowId \in 1..MaxWorkflows

\* C29: every failure of an operation of a client (create, start, stop,
\* status, download, upload of a file or of a folder) reaches the caller as
\* REANABackendError: a call ends without exception or with that one.
C29_ClientErrorsAreBackendErrors ==
    ccall.done => ccall.out.exc \in {"", "REANABackendError"}

\* The operations of benchreana's client other than upload_file end without
\* exception or with REANABackendError.
BenchClientWrapsApiErrors ==
    (ccall.done /\ ccall.client = "benchreana" /\ ccall.method # "upload_file") =>
        ccall.out.exc = IF ccall.api_ok THEN "" ELSE "REANABackendError"

\* C24 as claimed: with callers of get_state and cancel_run at the same
\* time, a state file that holds an error or a success state is never
\* replaced by a different one.
C24_TerminalIsImmutable ==
    [][\A r \in RunIds :
         (store[r].exists /\ store[r].state.type \in {"ERROR", "SUCCESS"}) =>
            store'[r] = store[r]]_vars

\* The stage, the messages and the resource keys that a get_state writes
\* for a state it has read and a response it has received.
WrittenFor(obj, resp) ==
    IF resp.status \in RunningTokens /\ obj.state.type = "PENDING"
    THEN [type |-> "RUNNING", messages |-> PyNone, keys |-> {}]
    ELSE IF resp.status \in ErrorTokens
    THEN [type |-> "ERROR", messages |-> resp.logs, keys |-> {}]
    ELSE [type |-> "SUCCESS", messages |-> PyNone,
          keys |-> {obj.outputs[i] : i \in 1..Len(obj.outputs)}]

Written(state) ==
    [type |-> state.type, messages |-> state.messages, keys |-> DOMAIN state.resources]

\* C25: when two get_state calls at the same time have read the same
\* active state and received the same response, each write of one of them
\* leaves the stage, the messages and the resource keys in the state file
\* that this state and this response determine, the same as the write of
\* the other one, whatever the order of their steps.
C25_SameResponseSameRecord ==
    [][\A p \in Procs :
         (ConcWrite(p) /\ procs[p].op = "get_state") =>
            LET r == procs[p].run IN
            /\ Written(store'[r].state)
                  = WrittenFor(procs[p].obj, procs[p].res.out.resp)
            /\ store'[r].outputs = procs[p].obj.outputs
            /\ store'[r].workflowId = procs[p].obj.workflowId
            /\ \A q \in Procs \ {p} :
                  (/\ procs[q].pc = "write" /\ procs[q].op = "get_state"
                   /\ procs[q].run = r /\ procs[q].obj = procs[p].obj
                   /\ procs[q].res.out.resp = procs[p].res.out.resp) =>
                     Written(procs[q].res.obj.state) = Written(store'[r].state)]_vars

\* two get_state calls have read the same pending state of a run with two
\* output files and received 'finished'; one has written the success
\* state, the other is about to write it
C25_Witness ==
    \E p, q \in Procs :
        /\ p # q
        /\ procs[q].pc = "write" /\ procs[q].op = "get_state"
        /\ procs[q].obj.state.type = "PENDING"
        /\ Len(procs[q].obj.outputs) = 2
        /\ procs[q].res.out.resp.status = PyStr("finished")
        /\ procs[p].pc = "idle"
        /\ last.op = "get_state" /\ last.run = procs[q].run
        /\ last.effects = procs[q].res.out.effects
        /\ store[procs[q].run].state.type = "SUCCESS"

\* C26 as claimed: a get_state or a cancel_run that is called while an
\* execute is under way raises UnknownRunError or finds the run folder
\* with a state file; it never finds a run folder without state file.
C26_NoHalfCreatedRun ==
    [][\A p \in Procs, r \in RunIds :
         (ConcLoad(p, "get_state", r) \/ ConcLoad(p, "cancel_run", r)) =>
            /\ store[r].exists => store[r].state.type # "None"
            /\ last'.exc # "FileNotFoundError"]_vars

\* C23: an execute, a get_state or a cancel_run for a run leaves the run
\* folder, the record and the files of every other run as they are, and
\* calls the cluster for its own workflow only: the one of its record, or
\* the one that the call has created; the workflow of another run is left
\* as it is at the cluster.
C23_RunsAreIndependent ==
    [][\A a \in RunIds, b \in RunIds :
         \* every call for the run a leaves its identifier in last'.run
         (a # b /\ last'.run = a) =>
            /\ store'[b] = store[b]
            /\ files'[b] = files[b]
            /\ \A i \in 1..Len(last'.effects) :
                  LET c == last'.effects[i] IN
                  /\ c.call \in {"makedirs", "rmtree", "write_object"} => c.arg = a
                  /\ (c.call \notin {"makedirs", "rmtree", "write_object"} /\ c.wf # 0) =>
                        /\ store[b].exists => c.wf # store[b].workflowId
                        /\ IF store[a].exists THEN c.wf = store[a].workflowId
                           ELSE remote[c.wf] = "none"
            /\ store[b].exists =>
                  remote'[store[b].workflowId] = remote[store[b].workflowId]]_vars

\* a poll has downloaded the output files of one run and written its
\* success state while the other run is pending
C23_Witness ==
    \E a \in RunIds, b \in RunIds :
        /\ a # b
        /\ last.op = "get_state" /\ last.run = a /\ Wrote(last)
        /\ Exists(a) /\ Stage(a) = "SUCCESS" /\ files[a] # {}
        /\ Exists(b) /\ Stage(b) = "PENDING" /\ files[b] = {}
        /\ store[a].workflowId # store[b].workflowId


\* The path of a file relative to the source folder, below the target.
TargetOf(file) == TargetRoot \o SubSeq(file, Len(SourcePath) + 1, Len(file))

\* The finished call is an upload of a folder through an API that works.
FolderUploadDone ==
    /\ ccall.done /\ ccall.method = "upload_file" /\ ccall.api_ok
    /\ SourcePath \in ccall.source.dirs

\* C31 as claimed: upload_file of a folder ends without exception after
\* exactly one upload call of the API for each file in the folder or in a
\* folder below it, with the path of that file as source and the target
\* joined with the path of the file relative to the folder as target.
C31_OneUploadPerLeaf ==
    FolderUploadDone =>
        /\ ccall.out.exc = ""
        /\ \A f \in ccall.source.files :
               Cardinality({i \in DOMAIN ccall.out.api : ccall.out.api[i].source = f}) = 1
        /\ \A i \in DOMAIN ccall.out.api :
               /\ ccall.out.api[i].source \in ccall.source.files
               /\ ccall.out.api[i].target = TargetOf(ccall.out.api[i].source)

\* For a folder whose files are all in the folder itself, flowservreana's
\* upload_file makes one upload call for each file, with the paths of C31.
FlatFolderUploads ==
    (/\ FolderUploadDone /\ ccall.client = "flowservreana"
     /\ \A f \in ccall.source.files : Len(f) = Len(SourcePath) + 1) =>
        /\ ccall.out.exc = ""
        /\ \A f \in ccall.source.files :
               Cardinality({i \in DOMAIN ccall.out.api : ccall.out.api[i].source = f}) = 1
        /\ \A i \in DOMAIN ccall.out.api :
               /\ ccall.out.api[i].source \in ccall.source.files
               /\ ccall.out.api[i].target = TargetOf(ccall.out.api[i].source)

\* flowservreana's upload_file of a folder with a file in a nested folder
\* ends with an exception or uploads a file of the folder twice.
NestedFolderUploadsFail ==
    (/\ FolderUploadDone /\ ccall.client = "flowservreana"
     /\ \E f \in ccall.source.files : Len(f) > Len(SourcePath) + 1) =>
        \/ ccall.out.exc = "FileNotFoundError"
        \/ \E i, j \in DOMAIN ccall.out.api :
               i # j /\ ccall.out.api[i].source = ccall.out.api[j].source

\* A file is uploaded twice without any exception.
UploadedTwice ==
    /\ FolderUploadDone /\ ccall.out.exc = ""
    /\ \E i, j \in DOMAIN ccall.out.api :
           i # j /\ ccall.out.api[i] = ccall.out.api[j]


\* How often the last engine call made the call of the given name, and how
\* often with the given argument.
CountCalls(name) ==
    Cardinality({i \in DOMAIN last.effects : last.effects[i].call = name})

CountCallsFor(name, arg) ==
    Cardinality({i \in DOMAIN last.effects :
                    last.effects[i].call = name /\ last.effects[i].arg = arg})

\* The last call of the client is the only one that can have failed: what
\* the engine call did after it is local (the rollback of execute).
EndsAtRemoteFailure ==
    last.exc = "REANABackendError" =>
        /\ RemoteCalls(last) # <<>>
        /\ CountCalls("write_object") = 0
        /\ \A i \in DOMAIN last.effects :
               last.effects[i].call \in {"rmtree"}
                   => \A j \in DOMAIN last.effects :
                          j > i => last.effects[j].call \notin
                                     {"create_workflow", "upload_file", "start_workflow",
                                      "stop_workflow", "get_workflow_status",
                                      "download_file"}
        /\ (last.op = "get_state" /\ ~last.resp.received) =>
               CountCalls("download_file") = 0
        /\ (last.op = "execute" /\ CountCalls("upload_file") = 0
                /\ CountCalls("start_workflow") = 0) =>
               CountCalls("create_workflow") = 1

\* The bounds on the calls of get_state and cancel_run, and on the start
\* calls of execute.
CallBounds ==
    /\ last.op = "get_state" =>
           /\ CountCalls("get_workflow_status") <= 1
           /\ \A name \in {"a.txt", "b.txt", "c.txt", "d.txt"} :
                  CountCallsFor("download_file", name) <= 1
           /\ CountCalls("download_file") > 0 => last.resp.received
    /\ last.op = "cancel_run" => CountCalls("stop_workflow") <= 1
    /\ last.op = "execute" => CountCalls("start_workflow") <= 1

\* C32 as claimed: no engine call makes a call of the client twice, a
\* failed call of the client ends the engine call, and every execute makes
\* exactly one create call.
C32_ExactlyOneCreate ==
    /\ CallBounds
    /\ EndsAtRemoteFailure
    /\ last.op = "execute" => CountCalls("create_workflow") = 1

\* C32: no engine call makes a call of the client twice and a failed call
\* of the client ends the engine call; an execute makes exactly one create
\* call when it has made its run folder and built the workflow
\* specification, and none when it failed before.
C32_NoInternalRetry ==
    /\ CallBounds
    /\ EndsAtRemoteFailure
    /\ last.op = "execute" =>
           CountCalls("create_workflow") =
               IF last.exc \in {"MissingArgumentError", "FileExistsError",
                                "InvalidTemplateError"}
               THEN 0 ELSE 1

\* A success poll whose second download failed: one status call, one
\* download call for each of the two files, and nothing after them.
C32_Witness ==
    /\ last.op = "get_state" /\ last.exc = "REANABackendError"
    /\ CountCalls("get_workflow_status") = 1
    /\ CountCalls("download_file") = 2
    /\ Len(last.effects) = 3


\* C33: an execute whose arguments are not valid raises
\* MissingArgumentError without any effect: it has no run identifier, makes
\* no run folder and no call of the client, and leaves every run folder,
\* every file and every workflow at the cluster as they were.
C33_ValidationBeforeEffects ==
    [][(last'.op = "execute" /\ last'.exc = "MissingArgumentError") =>
           /\ last'.run = ""
           /\ last'.effects = <<>>
           /\ store' = store /\ files' = files /\ remote' = remote
           /\ uuids' = uuids]_vars

\* An execute with invalid arguments ended while the run identifier that
\* the next execute gets is still unused.
C33_Witness ==
    /\ last.op = "execute" /\ last.exc = "MissingArgumentError"
    /\ \E identifier \in uuids : ~store[identifier].exists


\* C34: an execute whose run identifier names a run folder that exists
\* raises FileExistsError, makes no call of the client and no rollback, and
\* leaves the record and the files of that run and the workflows at the
\* cluster as they were.
C34_ExistingRunFolder ==
    [][(/\ last'.op = "execute" /\ last'.run # "" /\ store[last'.run].exists
        /\ (last' # last \/ last.exc = "FileExistsError")) =>
           /\ last'.exc = "FileExistsError"
           /\ last'.effects = <<>>
           /\ store' = store /\ files' = files /\ remote' = remote]_vars

\* An execute failed on the folder of a run that has downloaded its files,
\* and the record and the files are there.
C34_Witness ==
    /\ last.op = "execute" /\ last.exc = "FileExistsError"
    /\ store[last.run].exists
    /\ store[last.run].state.type = "SUCCESS"
    /\ files[last.run] # {}


\* C35 as claimed: a get_state through REANATestClient moves an active run
\* to Running when the backend reports a running state for a pending run,
\* to Error when it reports an error state and to Success when it reports
\* a success state whose files can be downloaded.
C35_TestClientStatusRecognized ==
    [][\A r \in RunIds :
          (/\ last'.op = "get_state" /\ last'.run = r /\ last' # last
           /\ store[r].exists /\ store[r].state.type \in {"PENDING", "RUNNING"}) =>
              /\ (cluster.status = "running" /\ store[r].state.type = "PENDING")
                     => store'[r].state.type = "RUNNING"
              /\ cluster.status \in {"failed", "stopped", "deleted"}
                     => store'[r].state.type = "ERROR"
              /\ (cluster.status = "finished" /\ cluster.files_ok)
                     => store'[r].state.type = "SUCCESS"]_vars

\* With REANATestClient no poll changes the state of a run: every run stays
\* in the pending state that execute has written.
TestClientRunStaysPending ==
    \A r \in RunIds : store[r].exists => store[r].state.type = "PENDING"


\* C36: after create_workflow the status of REANATestAPI is a pending
\* token; the first status call reports 'running', the second and every
\* later one 'failed' when the action of the to-do file is ERROR and
\* 'finished' otherwise, with results/outputs.json written exactly then;
\* the state polled through modify_state from Pending is Running after the
\* first poll and Error or Success after the second.
C36_TestApiSequence ==
    api.state.type # "None" =>
        /\ api.polls = 0 =>
               /\ api.status.kind = "str" /\ api.status.s \in {"created", "queued"}
               /\ api.state.type = "PENDING"
        /\ api.polls = 1 =>
               /\ api.reported.kind = "str" /\ api.reported.s = "running"
               /\ api.state.type = "RUNNING"
        /\ api.polls >= 2 =>
               /\ api.reported.kind = "str"
               /\ api.reported.s = IF api.action = "ERROR" THEN "failed" ELSE "finished"
               /\ api.state.type = IF api.action = "ERROR" THEN "ERROR" ELSE "SUCCESS"
        /\ api.results = (api.polls >= 2 /\ api.action # "ERROR")

\* The workflow was polled three times, failed and reports 'failed' again.
C36_Witness ==
    /\ api.polls = 3 /\ api.action = "ERROR"
    /\ api.reported = [kind |-> "str", s |-> "failed", l |-> <<>>]
    /\ api.state.type = "ERROR"


\* C37: for every status value (a token of a vocabulary, a token of none,
\* or no status) and every pending or running state, the stage that
\* flowservreana's modify_state moves the state to is the branch that the
\* if/elif chain of benchreana's get_state takes: what one classifier has
\* given for an input is what the other gives for it.
C37_ClassifiersAgree ==
    (cin.by # "" /\ cin.state.type \in {"PENDING", "RUNNING"}) =>
        /\ cin.by = "modify_state" =>
               cout.target = get_state_branch(cin.status, cin.state)
        /\ cin.by = "get_state" =>
               cout.target =
                   Target(cin.state,
                          modify_state([status |-> cin.status, logs |-> cin.logs],
                                       cin.state, clock))

\* modify_state has moved a running state to Error for the status 'failed'.
C37_Witness ==
    /\ cin.by = "modify_state" /\ cin.state.type = "RUNNING"
    /\ cin.status = [kind |-> "str", s |-> "failed", l |-> <<>>]
    /\ cout.target = "Error"


\* The vocabularies of benchreana.client and of flowservreana.client.
BenchVocabularies ==
    <<REANA_STATE_PENDING, REANA_STATE_RUNNING, REANA_STATE_ERROR, REANA_STATE_SUCCESS>>

FlowVocabularies ==
    <<FS_REANA_STATE_PENDING, FS_REANA_STATE_RUNNING, FS_REANA_STATE_ERROR,
      FS_REANA_STATE_SUCCESS>>

\* The rules of the classifiers tried in the opposite order.
RulesReversed(status, state) ==
    IF status \in {[kind |-> "str", s |-> t, l |-> <<>>] : t \in Range(REANA_STATE_SUCCESS)}
           /\ state.type \in {"PENDING", "RUNNING"}
    THEN "Success"
    ELSE IF status \in {[kind |-> "str", s |-> t, l |-> <<>>] : t \in Range(REANA_STATE_ERROR)}
           /\ state.type \in {"PENDING", "RUNNING"}
    THEN "Error"
    ELSE IF status \in {[kind |-> "str", s |-> t, l |-> <<>>] : t \in Range(REANA_STATE_RUNNING)}
           /\ state.type = "PENDING"
    THEN "Running"
    ELSE "NoChange"

\* C38: the vocabularies are (created, queued), (running), (failed, stopped,
\* deleted) and (finished) in both client modules and no token is in two of
\* them; REANA_ACTIVE_STATE holds the pending and the running tokens and no
\* other; so for the status a classifier was called with at most one
\* vocabulary has it, and the rules tried in the opposite order give the
\* target the classifier gave.
C38_VocabulariesDisjoint ==
    /\ BenchVocabularies = <<<<"created", "queued">>, <<"running">>,
                             <<"failed", "stopped", "deleted">>, <<"finished">>>>
    /\ FlowVocabularies = BenchVocabularies
    /\ \A i, j \in 1..4 :
           i # j => /\ Range(BenchVocabularies[i]) \cap Range(BenchVocabularies[j]) = {}
                    /\ Range(FlowVocabularies[i]) \cap Range(FlowVocabularies[j]) = {}
    /\ Range(REANA_ACTIVE_STATE) = {"created", "queued", "running"}
    /\ Len(REANA_ACTIVE_STATE) = 3
    /\ cin.by # "" =>
           /\ Cardinality({i \in 1..4 : cin.status.kind = "str"
                                          /\ cin.status.s \in Range(BenchVocabularies[i])}) <= 1
           /\ cout.target = RulesReversed(cin.status, cin.state)

\* The branch of get_state for the status 'finished' and a running state
\* is Success.
C38_Witness ==
    /\ cin.by = "get_state" /\ cin.state.type = "RUNNING"
    /\ cin.status = [kind |-> "str", s |-> "finished", l |-> <<>>]
    /\ cout.target = "Success"


\* C39: an execute that fails after its create call has succeeded (in an
\* upload, in the start call or in writing the state file) removes the run
\* folder and makes no stop call or other call of the client after the one
\* that failed: the workflow it has created stays at the cluster, started
\* when the start call has succeeded, and no record of a run refers to it.
C39_RollbackIsLocal ==
    [][\A id \in RunIds :
         (/\ last'.op = "execute" /\ last'.run = id /\ last'.exc # ""
          /\ (last' # last \/ remote' # remote)
          /\ \E i \in 1..(Len(last'.effects) - 1) :
                /\ last'.effects[i].call = "create_workflow"
                /\ last'.effects[i + 1].call # "rmtree") =>
            LET e == last'.effects
                k == Len(e)
            IN /\ e[k] = [call |-> "rmtree", wf |-> 0, arg |-> id]
               /\ \A i \in 1..k : e[i].call \notin {"stop_workflow", "delete_workflow"}
               /\ ~store'[id].exists
               /\ \E w \in 1..MaxWorkflows :
                     /\ remote[w] = "none"
                     /\ remote'[w] = IF last'.exc = "IOError" THEN "started"
                                     ELSE "created"
                     /\ \A v \in 1..MaxWorkflows : v # w => remote'[v] = remote[v]
                     /\ \A r \in RunIds :
                            store'[r].exists => store'[r].workflowId # w]_vars

\* An execute has started its workflow and failed to write the state file:
\* the workflow is started at the cluster and there is no run.
C39_Witness ==
    /\ last.op = "execute" /\ last.exc = "IOError"
    /\ \A r \in RunIds : ~store[r].exists
    /\ \E w \in 1..MaxWorkflows : remote[w] = "started"


\* The reference to a parameter, and the added parameters of a type.
Ref(identifier) == <<"$[[", identifier, "]]">>

AddedOfType(types) ==
    {i \in DOMAIN mt.parameters : mt.parameters[i].type \in types}

\* What every finished call of modify_template does whatever is added: the
\* error for a workflow that is not serial, and the identifiers of the
\* parameters of the template returned.
ModifyTemplateBasics ==
    /\ mt.template.workflow_spec.type # "serial" =>
           /\ mt.out.exc = "InvalidTemplateError"
           /\ mt.out.result.workflow_spec.type = ""
           /\ mt.out.result.parameters = <<>>
    /\ mt.template.workflow_spec.type = "serial" =>
           /\ mt.out.exc = ""
           /\ mt.out.result.workflow_spec.type = "serial"
           /\ DOMAIN mt.out.result.parameters
                  = DOMAIN mt.template.parameters \cup DOMAIN mt.parameters
           /\ \A i \in DOMAIN mt.out.result.parameters :
                  mt.out.result.parameters[i].label =
                      IF i \in DOMAIN mt.parameters THEN "added" ELSE "template"

\* C40 as claimed: modify_template raises InvalidTemplateError when the
\* workflow is not serial; otherwise the template returned has the
\* identifiers of the template and of the added parameters, a reference in
\* inputs.files for every added file parameter and an entry in
\* inputs.parameters for every added parameter that is no file, and the
\* template passed in is as it was.
C40_AddedByOwnType ==
    mt.done =>
        /\ ModifyTemplateBasics
        /\ mt.template.workflow_spec.type = "serial" =>
               /\ \A i \in AddedOfType({"file"}) :
                      \E k \in DOMAIN mt.out.result.workflow_spec.files :
                          mt.out.result.workflow_spec.files[k] = Ref(i)
               /\ \A i \in AddedOfType({"int"}) :
                      i \in DOMAIN mt.out.result.workflow_spec.parameters
        /\ mt.out.template = mt.template

\* C40: modify_template raises InvalidTemplateError when the workflow is
\* not serial; otherwise the template returned has the identifiers of the
\* template and of the added parameters; an added parameter whose
\* identifier the template has is merged into the parameter of the
\* template and keeps the type of that one; every added identifier has a
\* reference in inputs.files when its parameter in the template returned
\* is a file and an entry in inputs.parameters otherwise; the workflow
\* specification of the template passed in, the identifiers of its
\* parameters and its parameters that are not added are as they were.
C40_ModifyTemplate ==
    mt.done =>
        /\ ModifyTemplateBasics
        /\ mt.template.workflow_spec.type = "serial" =>
               /\ \A i \in DOMAIN mt.parameters :
                      /\ mt.out.result.parameters[i].type =
                             IF i \in DOMAIN mt.template.parameters
                             THEN mt.template.parameters[i].type
                             ELSE mt.parameters[i].type
                      /\ IF mt.out.result.parameters[i].type = "file"
                         THEN \E k \in DOMAIN mt.out.result.workflow_spec.files :
                                  mt.out.result.workflow_spec.files[k] = Ref(i)
                         ELSE i \in DOMAIN mt.out.result.workflow_spec.parameters
               /\ \A i \in DOMAIN mt.template.parameters \ DOMAIN mt.parameters :
                      mt.out.result.parameters[i] = mt.template.parameters[i]
               /\ \A k \in DOMAIN mt.template.workflow_spec.files :
                      mt.out.result.workflow_spec.files[k]
                          = mt.template.workflow_spec.files[k]
               /\ \A i \in DOMAIN mt.template.workflow_spec.parameters :
                      mt.out.result.workflow_spec.parameters[i]
                          = mt.template.workflow_spec.parameters[i]
        /\ mt.out.template.workflow_spec = mt.template.workflow_spec
        /\ DOMAIN mt.out.template.parameters = DOMAIN mt.template.parameters
        /\ \A i \in DOMAIN mt.template.parameters \ DOMAIN mt.parameters :
               mt.out.template.parameters[i] = mt.template.parameters[i]

\* A file parameter was added to a serial template that has a parameter of
\* that identifier that is no file: the merged parameter is no file and is
\* referenced in inputs.parameters.
C40_Witness ==
    /\ mt.done /\ mt.out.exc = ""
    /\ \E i \in DOMAIN mt.parameters \cap DOMAIN mt.template.parameters :
           /\ mt.parameters[i].type = "file"
           /\ mt.template.parameters[i].type = "int"
           /\ mt.out.result.parameters[i].label = "added"
           /\ i \in DOMAIN mt.out.result.workflow_spec.parameters
    /\ \E i \in DOMAIN mt.parameters \ DOMAIN mt.template.parameters :
           mt.parameters[i].type = "file"

=============================================================================
